---- MODULE Spec2Model ----
(***************************************************************************)
(* A model of the ARM7TDMI CPU core of gba-rs: the scheduler surface of    *)
(* src/cpu/mod.rs (new, init, set_breaks, run, cycle, set_thumb_mode), the *)
(* Thumb decoder and executor of src/cpu/thumb.rs, and the host loop of    *)
(* src/gba/mod.rs (Gba::new, run, emulate_frame, cycle).                   *)
(*                                                                         *)
(* A u32 is the pair <<hi, lo>> of its 16-bit halves (TLC's integers stop  *)
(* at 2^31 - 1); a u16, a u8, a register index and an instruction field    *)
(* are plain naturals.                                                     *)
(***************************************************************************)
EXTENDS Integers, Sequences, FiniteSets, TLC

VARIABLES
    reg,      \* Cpu.reg: the register file, slot -> u32 (CPSR included)
    mem,      \* the Mmu's bytes: address (a u32) -> u8, absent = 0
    brk,      \* Cpu.brk: the breakpoint set
    phase,    \* "unbuilt" before Cpu::new, "ready" after
    seed,     \* the (reg, value) pairs handed to Cpu::new
    pcRun,    \* where Cpu::run is: "idle", "loop", "done"
    runFlag,  \* Cpu::run's local `run`
    ncycles,  \* cycle() calls made so far
    last,     \* what the last operation was and what it did
    dword,    \* decoder harness: the u16 handed to Instruction::decode
    dform,    \* decoder harness: what decode returned ("none" before)
    frame     \* the host: where Gba::run is, its counts, the calls of the
              \* iteration at hand, the Options, the process's log level

vars == <<reg, mem, brk, phase, seed, pcRun, runFlag, ncycles, last, dword, dform, frame>>

----------------------------------------------------------------------------
(* u32 arithmetic on <<hi, lo>> pairs.                                     *)

H == 2^16

U32(n) == <<n \div H, n % H>>

wrapping_add(a, b) ==
    LET lo == a[2] + b[2]
        hi == a[1] + b[1] + (lo \div H)
    IN  <<hi % H, lo % H>>

wrapping_sub(a, b) ==
    LET lo == a[2] - b[2]
        hi == a[1] - b[1] - (IF lo < 0 THEN 1 ELSE 0)
    IN  <<(hi + H) % H, (lo + H) % H>>

\* the bitwise operators on 16-bit halves, a hexadecimal digit at a time
Nibble == 0 .. 15

RECURSIVE BitAnd(_, _)
BitAnd(a, b) ==
    IF a = 0 \/ b = 0 THEN 0
    ELSE (a % 2) * (b % 2) + 2 * BitAnd(a \div 2, b \div 2)

RECURSIVE BitOr(_, _)
BitOr(a, b) ==
    IF a = 0 THEN b ELSE IF b = 0 THEN a
    ELSE (IF a % 2 = 1 \/ b % 2 = 1 THEN 1 ELSE 0) + 2 * BitOr(a \div 2, b \div 2)

RECURSIVE BitXor(_, _)
BitXor(a, b) ==
    IF a = 0 THEN b ELSE IF b = 0 THEN a
    ELSE ((a + b) % 2) + 2 * BitXor(a \div 2, b \div 2)

AndNibble == [x \in Nibble |-> [y \in Nibble |-> BitAnd(x, y)]]
OrNibble  == [x \in Nibble |-> [y \in Nibble |-> BitOr(x, y)]]
XorNibble == [x \in Nibble |-> [y \in Nibble |-> BitXor(x, y)]]

and16(a, b) ==
    IF a = 0 \/ b = 0 THEN 0
    ELSE AndNibble[a % 16][b % 16]
         + 16 * AndNibble[(a \div 16) % 16][(b \div 16) % 16]
         + 256 * AndNibble[(a \div 256) % 16][(b \div 256) % 16]
         + 4096 * AndNibble[a \div 4096][b \div 4096]

or16(a, b) ==
    OrNibble[a % 16][b % 16]
    + 16 * OrNibble[(a \div 16) % 16][(b \div 16) % 16]
    + 256 * OrNibble[(a \div 256) % 16][(b \div 256) % 16]
    + 4096 * OrNibble[(a \div 4096) % 16][(b \div 4096) % 16]

xor16(a, b) ==
    XorNibble[a % 16][b % 16]
    + 16 * XorNibble[(a \div 16) % 16][(b \div 16) % 16]
    + 256 * XorNibble[(a \div 256) % 16][(b \div 256) % 16]
    + 4096 * XorNibble[(a \div 4096) % 16][(b \div 4096) % 16]

and32(a, b) == <<and16(a[1], b[1]), and16(a[2], b[2])>>
or32(a, b)  == <<or16(a[1], b[1]), or16(a[2], b[2])>>
xor32(a, b) == <<xor16(a[1], b[1]), xor16(a[2], b[2])>>
not32(a)    == <<(H - 1) - a[1], (H - 1) - a[2]>>

\* x << n and x >> n for 0 <= n <= 31
shl32(x, n) ==
    IF n >= 16 THEN <<(x[2] * 2^(n - 16)) % H, 0>>
    ELSE <<(x[1] % 2^(16 - n)) * 2^n + (x[2] \div 2^(16 - n)), (x[2] * 2^n) % H>>

shr32(x, n) ==
    IF n >= 16 THEN <<0, x[1] \div 2^(n - 16)>>
    ELSE <<x[1] \div 2^n, (x[2] \div 2^n) + (x[1] % 2^n) * 2^(16 - n)>>

\* u32::wrapping_mul, by 8-bit limbs of b so that no product passes 2^31
wrapping_mul(a, b) ==
    LET limb(k) == ((IF k < 2 THEN b[2] ELSE b[1]) \div (IF k % 2 = 0 THEN 1 ELSE 256)) % 256
        part(k) == LET l  == limb(k)
                       lo == a[2] * l
                       hi == (a[1] * l + (lo \div H)) % H
                   IN  shl32(<<hi, lo % H>>, 8 * k)
    IN  wrapping_add(wrapping_add(part(0), part(1)), wrapping_add(part(2), part(3)))

----------------------------------------------------------------------------
(* bit_util: the helpers thumb.rs imports with `use bit_util::*`.          *)

bit(x, i) == shr32(x, i)[2] % 2

\* (x >> off) & ((1 << len) - 1), for the fields thumb.rs reads (len <= 16)
extract(x, off, len) == shr32(x, off)[2] % 2^len

\* x with bits off .. off+len-1 replaced by val
set(x, off, len, val) ==
    LET m == shl32(U32(2^len - 1), off)
    IN  or32(and32(x, not32(m)), shl32(U32(val), off))

mask_match(inst, mask, test) == and32(inst, mask) = test

\* sign-extend the low `bits` bits of the natural n to a u32
sign_extend(n, bits) ==
    IF (n \div 2^(bits - 1)) % 2 = 1
    THEN wrapping_sub(U32(n % 2^bits), U32(2^bits))
    ELSE U32(n % 2^bits)

----------------------------------------------------------------------------
(* The Thumb decoder.                                                      *)

INST_MATCH_ORDER_ShiftedFirst ==
    << "Branch", "Shifted", "AddSub", "AluOp", "ImmOp", "HiRegBx", "PcLoad",
       "SingleXferR", "HwSgnXfer", "SingleXferI", "HwXferI", "SpXfer",
       "LoadAddr", "SpAdd", "PushPop", "BlockXfer", "CondBranch",
       "SoftwareInt", "LongBranch", "Undefined" >>

INST_MATCH_ORDER ==
    << "Branch", "AddSub", "AluOp", "Shifted", "ImmOp", "HiRegBx", "PcLoad",
       "SingleXferR", "HwSgnXfer", "SingleXferI", "HwXferI", "SpXfer",
       "LoadAddr", "SpAdd", "PushPop", "BlockXfer", "CondBranch",
       "SoftwareInt", "LongBranch", "Undefined" >>

pattern_SpAddWide(typ) ==
    CASE typ = "Shifted"     -> <<\He000, \H0000>>
      [] typ = "AddSub"      -> <<\Hf800, \H1800>>
      [] typ = "ImmOp"       -> <<\He000, \H2000>>
      [] typ = "AluOp"       -> <<\Hfc00, \H4000>>
      [] typ = "HiRegBx"     -> <<\Hfc00, \H4400>>
      [] typ = "PcLoad"      -> <<\Hf800, \H4800>>
      [] typ = "SingleXferR" -> <<\Hf200, \H5000>>
      [] typ = "HwSgnXfer"   -> <<\Hf200, \H5200>>
      [] typ = "SingleXferI" -> <<\He000, \H6000>>
      [] typ = "HwXferI"     -> <<\Hf000, \H8000>>
      [] typ = "SpXfer"      -> <<\Hf000, \H9000>>
      [] typ = "LoadAddr"    -> <<\Hf000, \Ha000>>
      [] typ = "SpAdd"       -> <<\Hf000, \Hb000>>
      [] typ = "PushPop"     -> <<\Hf600, \Hb400>>
      [] typ = "BlockXfer"   -> <<\Hf000, \Hc000>>
      [] typ = "CondBranch"  -> <<\Hf000, \Hd000>>
      [] typ = "SoftwareInt" -> <<\Hff00, \Hdf00>>
      [] typ = "Branch"      -> <<\Hf800, \He000>>
      [] typ = "LongBranch"  -> <<\Hf000, \Hf000>>
      [] typ = "Undefined"   -> <<\H0000, \H0000>>

pattern(typ) ==
    CASE typ = "Shifted"     -> <<\He000, \H0000>>
      [] typ = "AddSub"      -> <<\Hf800, \H1800>>
      [] typ = "ImmOp"       -> <<\He000, \H2000>>
      [] typ = "AluOp"       -> <<\Hfc00, \H4000>>
      [] typ = "HiRegBx"     -> <<\Hfc00, \H4400>>
      [] typ = "PcLoad"      -> <<\Hf800, \H4800>>
      [] typ = "SingleXferR" -> <<\Hf200, \H5000>>
      [] typ = "HwSgnXfer"   -> <<\Hf200, \H5200>>
      [] typ = "SingleXferI" -> <<\He000, \H6000>>
      [] typ = "HwXferI"     -> <<\Hf000, \H8000>>
      [] typ = "SpXfer"      -> <<\Hf000, \H9000>>
      [] typ = "LoadAddr"    -> <<\Hf000, \Ha000>>
      [] typ = "SpAdd"       -> <<\Hff00, \Hb000>>
      [] typ = "PushPop"     -> <<\Hf600, \Hb400>>
      [] typ = "BlockXfer"   -> <<\Hf000, \Hc000>>
      [] typ = "CondBranch"  -> <<\Hf000, \Hd000>>
      [] typ = "SoftwareInt" -> <<\Hff00, \Hdf00>>
      [] typ = "Branch"      -> <<\Hf800, \He000>>
      [] typ = "LongBranch"  -> <<\Hf000, \Hf000>>
      [] typ = "Undefined"   -> <<\H0000, \H0000>>

\* the `for typ in INST_MATCH_ORDER.iter()` loop of decode, from index i on
RECURSIVE decodeFrom(_, _, _)
decodeFrom(order, inst, i) ==
    IF i > Len(order) THEN "Undefined"
    ELSE LET p == pattern(order[i])
         IN  IF mask_match(U32(inst), U32(p[1]), U32(p[2]))
             THEN order[i]
             ELSE decodeFrom(order, inst, i + 1)

decode(inst) == decodeFrom(INST_MATCH_ORDER, inst, 1)

----------------------------------------------------------------------------
(* cpu::util: flag arithmetic, the barrel shifter, condition codes.        *)

is_neg(x) == bit(x, 31) = 1

\* the CPSR nibble N Z C V (bits 31..28)
build_flags(v, c, z, n) == n * 8 + z * 4 + c * 2 + v

\* a + b + c as <<res, overflow, carry>>
add_flags(a, b, c) ==
    LET lo  == a[2] + b[2] + c
        hi  == a[1] + b[1] + (lo \div H)
        res == <<hi % H, lo % H>>
        sa  == bit(a, 31)
        sb  == bit(b, 31)
        sr  == bit(res, 31)
    IN  <<res, IF sa = sb /\ sr # sa THEN 1 ELSE 0, hi \div H>>

\* a - b - c as <<res, overflow, carry>>, carry = no borrow
sub_flags(a, b, c) == add_flags(a, not32(b), 1 - c)

ONES == <<H - 1, H - 1>>

asr32(x, n) ==
    IF is_neg(x) THEN or32(shr32(x, n), not32(shr32(ONES, n))) ELSE shr32(x, n)

ror32(x, n) == IF n = 0 THEN x ELSE or32(shr32(x, n), shl32(x, 32 - n))

\* an immediate shift amount of 0: LSL #0 keeps the value and C, LSR #0 and
\* ASR #0 shift by 32, ROR #0 is RRX; <<res, carry>>
arg_shift0(val, op, c) ==
    CASE op = 0 -> <<val, c>>
      [] op = 1 -> <<U32(0), bit(val, 31)>>
      [] op = 2 -> <<IF is_neg(val) THEN ONES ELSE U32(0), bit(val, 31)>>
      [] op = 3 -> <<or32(shr32(val, 1), shl32(U32(c), 31)), bit(val, 0)>>

\* a shift by 1..255 of type op (0 LSL, 1 LSR, 2 ASR, 3 ROR); <<res, carry>>
arg_shift(val, shift, op) ==
    CASE op = 0 ->
            IF shift < 32 THEN <<shl32(val, shift), bit(val, 32 - shift)>>
            ELSE IF shift = 32 THEN <<U32(0), bit(val, 0)>>
            ELSE <<U32(0), 0>>
      [] op = 1 ->
            IF shift < 32 THEN <<shr32(val, shift), bit(val, shift - 1)>>
            ELSE IF shift = 32 THEN <<U32(0), bit(val, 31)>>
            ELSE <<U32(0), 0>>
      [] op = 2 ->
            IF shift < 32 THEN <<asr32(val, shift), bit(val, shift - 1)>>
            ELSE <<IF is_neg(val) THEN ONES ELSE U32(0), bit(val, 31)>>
      [] op = 3 ->
            LET r == ror32(val, shift % 32) IN <<r, bit(r, 31)>>

\* condition cond against the N, Z, C, V of cpsr.  The helper is not part of
\* the sources at hand.  Conditions 0x0 to 0xE are those of the architecture;
\* for the reserved condition 0xF, which the CondBranch arm passes on for
\* every word of 0xdf00..0xdfff, the helper is assumed to return, and nv is
\* the value it returns, left open
cond_met(cond, cpsr, nv) ==
    LET n == bit(cpsr, 31) = 1
        z == bit(cpsr, 30) = 1
        c == bit(cpsr, 29) = 1
        v == bit(cpsr, 28) = 1
    IN  CASE cond = 0  -> z
          [] cond = 1  -> ~z
          [] cond = 2  -> c
          [] cond = 3  -> ~c
          [] cond = 4  -> n
          [] cond = 5  -> ~n
          [] cond = 6  -> v
          [] cond = 7  -> ~v
          [] cond = 8  -> c /\ ~z
          [] cond = 9  -> ~c \/ z
          [] cond = 10 -> n = v
          [] cond = 11 -> n # v
          [] cond = 12 -> ~z /\ n = v
          [] cond = 13 -> z \/ n # v
          [] cond = 14 -> TRUE
          [] cond = 15 -> nv

----------------------------------------------------------------------------
(* cpu::reg: the register file.  R0..R15 and CPSR; R8..R14 are banked in   *)
(* FIQ mode, R13 and R14 in IRQ, Supervisor, Abort and Undefined mode;     *)
(* User and System share the base bank.                                    *)

SP == 13
LR == 14
PC == 15
CPSR == 16
cpsr_T == 5

Slots == 0 .. 31

\* the physical slot register r selects when the mode field is `mode`
Slot(mode, r) ==
    IF mode = \H11 /\ r \in 8 .. 14 THEN 17 + (r - 8)
    ELSE IF r \in 13 .. 14 /\ mode \in {\H12, \H13, \H17, \H1b}
    THEN (CASE mode = \H12 -> 24 [] mode = \H13 -> 26
            [] mode = \H17 -> 28 [] mode = \H1b -> 30) + (r - 13)
    ELSE r

\* RegFile::default()
RegDefault == [s \in Slots |-> U32(0)]

CurMode(rf) == rf[CPSR][2] % 32

\* self.reg[r]
Get(rf, r) == rf[Slot(CurMode(rf), r)]

\* self.reg[r] = v
Put(rf, r, v) == [rf EXCEPT ![Slot(CurMode(rf), r)] = v]

\* self.reg.set(mode, r, v)
RegSet(rf, mode, r, v) == [rf EXCEPT ![Slot(mode, r)] = v]

----------------------------------------------------------------------------
(* The Mmu: a little-endian byte store over the whole address space that   *)
(* answers every address; bytes never written read as 0.                   *)

load8(m, a) == IF a \in DOMAIN m THEN m[a] ELSE 0

set8(m, a, v) == [x \in (DOMAIN m) \cup {a} |-> IF x = a THEN v ELSE m[x]]

load16(m, a) == load8(m, a) + 256 * load8(m, wrapping_add(a, U32(1)))

load32(m, a) == <<load16(m, wrapping_add(a, U32(2))), load16(m, a)>>

set16(m, a, v) == set8(set8(m, a, v % 256), wrapping_add(a, U32(1)), v \div 256)

set32(m, a, w) == set16(set16(m, a, w[2]), wrapping_add(a, U32(2)), w[1])

----------------------------------------------------------------------------
(* The Thumb executor.  A context c = [reg, mem, acc] is the register file,*)
(* the memory and the Mmu calls made so far in this cycle, each call a     *)
(* pair <<operation, address>>.                                            *)

R(c, r) == Get(c.reg, r)

SetR(c, r, v) == [c EXCEPT !.reg = Put(@, r, v)]

Called(c, kind, a) == [c EXCEPT !.acc = Append(@, <<kind, a>>)]

\* self.reg[rd] = self.mmu.load32(a) and its narrower forms
Ld32(c, rd, a) == SetR(Called(c, "load32", a), rd, load32(c.mem, a))
Ld16(c, rd, a) == SetR(Called(c, "load16", a), rd, U32(load16(c.mem, a)))
Ld8(c, rd, a)  == SetR(Called(c, "load8", a), rd, U32(load8(c.mem, a)))

\* self.mmu.set32(a, w) and its narrower forms (`as u16`, `as u8` keep the low bits)
St32(c, a, w) == [Called(c, "set32", a) EXCEPT !.mem = set32(@, a, w)]
St16(c, a, w) == [Called(c, "set16", a) EXCEPT !.mem = set16(@, a, w[2])]
St8(c, a, w)  == [Called(c, "set8", a) EXCEPT !.mem = set8(@, a, w[2] % 256)]

\* x & !1 and x & !3
Mask1(x) == <<x[1], x[2] - (x[2] % 2)>>
Mask3(x) == <<x[1], x[2] - (x[2] % 4)>>

set_flags_WholeWord(c, res, new_v, new_c) ==
    LET new_z     == IF res = U32(0) THEN 1 ELSE 0
        new_n     == IF is_neg(res) THEN 1 ELSE 0
        new_flags == build_flags(new_v, new_c, new_z, new_n)
    IN  SetR(c, CPSR, shl32(U32(new_flags), 28))

\* the set_flags! macro
set_flags(c, res, new_v, new_c) ==
    LET new_z     == IF res = U32(0) THEN 1 ELSE 0
        new_n     == IF is_neg(res) THEN 1 ELSE 0
        new_flags == build_flags(new_v, new_c, new_z, new_n)
    IN  SetR(c, CPSR, set(R(c, CPSR), 28, 4, new_flags))

ExShifted(c, inst, cf, vf) ==
    LET op    == extract(inst, 11, 2)
        shift == extract(inst, 6, 5)
        rs    == extract(inst, 3, 3)
        rd    == extract(inst, 0, 3)
        val   == R(c, rs)
        sr    == IF shift = 0 THEN arg_shift0(val, op, cf) ELSE arg_shift(val, shift, op)
    IN  set_flags(SetR(c, rd, sr[1]), sr[1], vf, sr[2])

ExAddSub(c, inst) ==
    LET i    == bit(inst, 10)
        op   == bit(inst, 9)
        rs   == extract(inst, 3, 3)
        rd   == extract(inst, 0, 3)
        rn   == extract(inst, 6, 3)
        val2 == IF i = 0 THEN R(c, rn) ELSE U32(rn)
        r    == IF op = 0 THEN add_flags(R(c, rs), val2, 0)
                ELSE sub_flags(R(c, rs), val2, 0)
    IN  set_flags(SetR(c, rd, r[1]), r[1], r[2], r[3])

ExImmOp_CmpWrites(c, inst, cf, vf) ==
    LET op  == extract(inst, 11, 2)
        rd  == extract(inst, 8, 3)
        imm == U32(extract(inst, 0, 8))
        r   == CASE op = 0 -> <<imm, vf, cf>>
                 [] op \in {1, 3} -> sub_flags(R(c, rd), imm, 0)
                 [] op = 2 -> add_flags(R(c, rd), imm, 0)
    IN  set_flags(SetR(c, rd, r[1]), r[1], r[2], r[3])

ExImmOp(c, inst, cf, vf) ==
    LET op  == extract(inst, 11, 2)
        rd  == extract(inst, 8, 3)
        imm == U32(extract(inst, 0, 8))
        r   == CASE op = 0 -> <<imm, vf, cf>>
                 [] op \in {1, 3} -> sub_flags(R(c, rd), imm, 0)
                 [] op = 2 -> add_flags(R(c, rd), imm, 0)
        c1  == IF op # 1 THEN SetR(c, rd, r[1]) ELSE c
    IN  set_flags(c1, r[1], r[2], r[3])

ExAluOp(c, inst, cf, vf) ==
    LET op   == extract(inst, 6, 4)
        rs   == extract(inst, 3, 3)
        rd   == extract(inst, 0, 3)
        vals == R(c, rs)
        vald == R(c, rd)
        r    == CASE op \in {0, 8} -> <<and32(vald, vals), vf, cf>>
                  [] op = 1 -> <<xor32(vald, vals), vf, cf>>
                  [] op \in {2, 3, 4, 7} ->
                        LET shift == vals[2] % 256
                            sr    == IF shift = 0 THEN <<vald, cf>>
                                     ELSE arg_shift(vald, shift,
                                                    2 * ((op \div 4) % 2) + (op % 2))
                        IN  <<sr[1], vf, sr[2]>>
                  [] op = 5  -> add_flags(vald, vals, cf)
                  [] op = 6  -> add_flags(vald, vals, 1 - cf)
                  [] op = 9  -> sub_flags(U32(0), vals, 0)
                  [] op = 10 -> sub_flags(vald, vals, 0)
                  [] op = 11 -> add_flags(vald, vals, 0)
                  [] op = 12 -> <<or32(vald, vals), vf, cf>>
                  [] op = 13 -> <<wrapping_mul(vald, vals), vf, 0>>
                  [] op = 14 -> <<and32(vald, not32(vals)), vf, cf>>
                  [] op = 15 -> <<not32(vals), vf, cf>>
        c1   == IF op \in {8, 10, 11} THEN c ELSE SetR(c, rd, r[1])
    IN  set_flags(c1, r[1], r[2], r[3])

ExHiRegBx_NoPrefetch(c, inst, cpsr) ==
    LET op   == extract(inst, 8, 2)
        hd   == bit(inst, 7)
        hs   == bit(inst, 6)
        rs   == extract(inst, 3, 3)
        rd   == extract(inst, 0, 3)
        crs  == hs * 8 + rs
        crd  == hd * 8 + rd
        vals == R(c, crs)
    IN  CASE op = 0 -> SetR(c, crd, wrapping_add(R(c, crd), vals))
          [] op = 1 -> LET r == sub_flags(R(c, crd), vals, 0)
                       IN  set_flags(c, r[1], r[2], r[3])
          [] op = 2 -> SetR(c, crd, vals)
          [] op = 3 ->
                LET new_t == bit(vals, 0)
                    c1    == SetR(c, PC, IF new_t = 0 THEN Mask3(vals) ELSE Mask1(vals))
                IN  SetR(c1, CPSR, set(cpsr, cpsr_T, 1, new_t))

ExHiRegBx_BxAlignsToTwo(c, inst, cpsr) ==
    LET op   == extract(inst, 8, 2)
        hd   == bit(inst, 7)
        hs   == bit(inst, 6)
        rs   == extract(inst, 3, 3)
        rd   == extract(inst, 0, 3)
        crs  == hs * 8 + rs
        crd  == hd * 8 + rd
        vals == wrapping_add(R(c, crs), U32((IF crs = PC THEN 1 ELSE 0) * 2))
    IN  CASE op = 0 -> SetR(c, crd, wrapping_add(R(c, crd), vals))
          [] op = 1 -> LET r == sub_flags(R(c, crd), vals, 0)
                       IN  set_flags(c, r[1], r[2], r[3])
          [] op = 2 -> SetR(c, crd, vals)
          [] op = 3 ->
                LET new_t == bit(vals, 0)
                    c1    == SetR(c, PC, Mask1(vals))
                IN  SetR(c1, CPSR, set(cpsr, cpsr_T, 1, new_t))

ExHiRegBx(c, inst, cpsr) ==
    LET op   == extract(inst, 8, 2)
        hd   == bit(inst, 7)
        hs   == bit(inst, 6)
        rs   == extract(inst, 3, 3)
        rd   == extract(inst, 0, 3)
        crs  == hs * 8 + rs
        crd  == hd * 8 + rd
        vals == wrapping_add(R(c, crs), U32((IF crs = PC THEN 1 ELSE 0) * 2))
    IN  CASE op = 0 -> SetR(c, crd, wrapping_add(R(c, crd), vals))
          [] op = 1 -> LET r == sub_flags(R(c, crd), vals, 0)
                       IN  set_flags(c, r[1], r[2], r[3])
          [] op = 2 -> SetR(c, crd, vals)
          [] op = 3 ->
                LET new_t == bit(vals, 0)
                    c1    == SetR(c, PC, IF new_t = 0 THEN Mask3(vals) ELSE Mask1(vals))
                IN  SetR(c1, CPSR, set(cpsr, cpsr_T, 1, new_t))

ExPcLoad(c, inst) ==
    LET rd     == extract(inst, 8, 3)
        offset == extract(inst, 0, 8)
        addr   == Mask3(wrapping_add(wrapping_add(R(c, PC), U32(2)), U32(offset * 4)))
    IN  Ld32(c, rd, addr)

ExSingleXferR(c, inst) ==
    LET l    == bit(inst, 11)
        b    == bit(inst, 10)
        ro   == extract(inst, 6, 3)
        rb   == extract(inst, 3, 3)
        rd   == extract(inst, 0, 3)
        addr == wrapping_add(R(c, rb), R(c, ro))
    IN  CASE l = 0 /\ b = 0 -> St32(c, Mask3(addr), R(c, rd))
          [] l = 0 /\ b = 1 -> St8(c, addr, R(c, rd))
          [] l = 1 /\ b = 0 -> Ld32(c, rd, Mask3(addr))
          [] l = 1 /\ b = 1 -> Ld8(c, rd, addr)

\* `as i8 as u32` and `as i16 as u32`
SignExt8(c, rd)  == SetR(c, rd, sign_extend(R(c, rd)[2], 8))
SignExt16(c, rd) == SetR(c, rd, sign_extend(R(c, rd)[2], 16))

ExHwSgnXfer(c, inst) ==
    LET h    == bit(inst, 11)
        s    == bit(inst, 10)
        ro   == extract(inst, 6, 3)
        rb   == extract(inst, 3, 3)
        rd   == extract(inst, 0, 3)
        addr == wrapping_add(R(c, rb), R(c, ro))
    IN  CASE h = 0 /\ s = 0 -> St16(c, Mask1(addr), R(c, rd))
          [] h = 0 /\ s = 1 -> Ld16(c, rd, Mask1(addr))
          [] h = 1 /\ s = 0 -> SignExt8(Ld8(c, rd, addr), rd)
          [] h = 1 /\ s = 1 -> SignExt16(Ld16(c, rd, Mask1(addr)), rd)

ExSingleXferI(c, inst) ==
    LET l      == bit(inst, 11)
        b      == bit(inst, 12)
        offset == extract(inst, 6, 5)
        rb     == extract(inst, 3, 3)
        rd     == extract(inst, 0, 3)
    IN  IF b = 0
        THEN LET addr == Mask3(wrapping_add(R(c, rb), U32(offset * 4)))
             IN  IF l = 0 THEN St32(c, addr, R(c, rd)) ELSE Ld32(c, rd, addr)
        ELSE LET addr == wrapping_add(R(c, rb), U32(offset))
             IN  IF l = 0 THEN St8(c, addr, R(c, rd)) ELSE Ld8(c, rd, addr)

ExHwXferI(c, inst) ==
    LET l      == bit(inst, 11)
        offset == extract(inst, 6, 5)
        rb     == extract(inst, 3, 3)
        rd     == extract(inst, 0, 3)
        addr   == Mask1(wrapping_add(R(c, rb), U32(offset * 2)))
    IN  IF l = 0 THEN St16(c, addr, R(c, rd)) ELSE Ld16(c, rd, addr)

ExSpXfer(c, inst) ==
    LET l      == bit(inst, 11)
        rd     == extract(inst, 8, 3)
        offset == extract(inst, 0, 8) * 4
        addr   == wrapping_add(R(c, SP), U32(offset))
    IN  IF l = 0 THEN St32(c, addr, R(c, rd)) ELSE Ld32(c, rd, addr)

ExLoadAddr(c, inst) ==
    LET s    == bit(inst, 11)
        rd   == extract(inst, 8, 3)
        imm  == extract(inst, 0, 8)
        base == IF s = 0 THEN Mask1(wrapping_add(R(c, PC), U32(2))) ELSE R(c, SP)
    IN  SetR(c, rd, wrapping_add(base, U32(imm * 4)))

ExSpAdd(c, inst) ==
    LET s   == bit(inst, 7)
        imm == extract(inst, 0, 7) * 4
        sp  == R(c, SP)
    IN  SetR(c, SP, IF s = 0 THEN wrapping_add(sp, U32(imm)) ELSE wrapping_sub(sp, U32(imm)))

\* u32::count_ones and u32::trailing_zeros, on a register list
RECURSIVE count_ones(_)
count_ones(n) == IF n = 0 THEN 0 ELSE (n % 2) + count_ones(n \div 2)

RECURSIVE trailing_zeros(_)
trailing_zeros(n) == IF n % 2 = 1 THEN 0 ELSE 1 + trailing_zeros(n \div 2)

\* the `for i in 0..total` loop of the PushPop arm, from iteration i on
RECURSIVE PushPopLoop(_, _, _, _, _, _)
PushPopLoop(c, l, addr, rem, i, total) ==
    IF i >= total THEN c
    ELSE LET r        == trailing_zeros(rem)
             idx_addr == wrapping_add(addr, U32(i * 4))
             c1       == IF l = 0 THEN St32(c, idx_addr, R(c, r)) ELSE Ld32(c, r, idx_addr)
         IN  PushPopLoop(c1, l, addr, rem - 2^r, i + 1, total)

ExPushPop_PushFromBase(c, inst) ==
    LET l         == bit(inst, 11)
        r         == bit(inst, 8)
        rlist     == extract(inst, 0, 8)
        total     == count_ones(rlist) + r
        base      == Mask3(R(c, SP))
        post_addr == IF l = 0 THEN wrapping_sub(base, U32(total * 4))
                     ELSE wrapping_add(base, U32(total * 4))
        rem       == rlist + (IF r = 1 THEN 2^(IF l = 0 THEN LR ELSE PC) ELSE 0)
    IN  SetR(PushPopLoop(c, l, base, rem, 0, total), SP, post_addr)

ExPushPop(c, inst) ==
    LET l         == bit(inst, 11)
        r         == bit(inst, 8)
        rlist     == extract(inst, 0, 8)
        total     == count_ones(rlist) + r
        base      == Mask3(R(c, SP))
        post_addr == IF l = 0 THEN wrapping_sub(base, U32(total * 4))
                     ELSE wrapping_add(base, U32(total * 4))
        addr      == IF l = 0 THEN post_addr ELSE base
        rem       == rlist + (IF r = 1 THEN 2^(IF l = 0 THEN LR ELSE PC) ELSE 0)
    IN  SetR(PushPopLoop(c, l, addr, rem, 0, total), SP, post_addr)

\* the `for i in 0..total` loop of the BlockXfer arm, from iteration i on
RECURSIVE BlockXferLoop(_, _, _, _, _, _, _)
BlockXferLoop(c, l, rb, base, rem, i, total) ==
    IF i >= total THEN c
    ELSE LET r        == trailing_zeros(rem)
             idx_addr == wrapping_add(base, U32(i * 4))
             c1       == IF l = 0
                         THEN St32(c, idx_addr, IF i = 0 /\ r = rb THEN base ELSE R(c, r))
                         ELSE Ld32(c, r, idx_addr)
         IN  BlockXferLoop(c1, l, rb, base, rem - 2^r, i + 1, total)

ExBlockXfer_WritebackAfter(c, inst) ==
    LET l     == bit(inst, 11)
        rb    == extract(inst, 8, 3)
        rlist == extract(inst, 0, 8)
        total == count_ones(rlist)
        base  == R(c, rb)
    IN  SetR(BlockXferLoop(c, l, rb, base, rlist, 0, total),
             rb, wrapping_add(base, U32(total * 4)))

ExBlockXfer_EmptyMovesBase(c, inst) ==
    LET l     == bit(inst, 11)
        rb    == extract(inst, 8, 3)
        rlist == extract(inst, 0, 8)
        total == count_ones(rlist)
        base  == R(c, rb)
        c1    == SetR(c, rb, wrapping_add(base, U32(IF total = 0 THEN 64 ELSE total * 4)))
    IN  BlockXferLoop(c1, l, rb, base, rlist, 0, total)

ExBlockXfer(c, inst) ==
    LET l     == bit(inst, 11)
        rb    == extract(inst, 8, 3)
        rlist == extract(inst, 0, 8)
        total == count_ones(rlist)
        base  == R(c, rb)
        c1    == SetR(c, rb, wrapping_add(base, U32(total * 4)))
    IN  BlockXferLoop(c1, l, rb, base, rlist, 0, total)

ExCondBranch_NoPrefetch(c, inst, pc, cpsr, nv) ==
    LET cond   == extract(inst, 8, 4)
        offset == sign_extend(extract(inst, 0, 8), 8)
    IN  IF cond_met(cond, cpsr, nv)
        THEN SetR(c, PC, wrapping_add(wrapping_add(pc, U32(2)), shl32(offset, 1)))
        ELSE c

ExCondBranch(c, inst, pc, cpsr, nv) ==
    LET cond   == extract(inst, 8, 4)
        offset == sign_extend(extract(inst, 0, 8), 8)
    IN  IF cond_met(cond, cpsr, nv)
        THEN SetR(c, PC, wrapping_add(wrapping_add(pc, U32(4)), shl32(offset, 1)))
        ELSE c

ExBranch(c, inst, pc) ==
    LET offset == sign_extend(extract(inst, 0, 11) * 2, 12)
    IN  SetR(c, PC, wrapping_add(wrapping_add(pc, U32(4)), offset))

ExLongBranch_ZeroExtends(c, inst, pc) ==
    LET h      == bit(inst, 11)
        offset == extract(inst, 0, 11)
    IN  IF h = 0
        THEN SetR(c, LR, wrapping_add(wrapping_add(pc, U32(4)), U32(offset * 2^12)))
        ELSE LET c1 == SetR(c, PC, wrapping_add(R(c, LR), U32(offset * 2)))
             IN  SetR(c1, LR, or32(wrapping_add(pc, U32(2)), U32(1)))

ExLongBranch(c, inst, pc) ==
    LET h      == bit(inst, 11)
        offset == extract(inst, 0, 11)
    IN  IF h = 0
        THEN SetR(c, LR, wrapping_add(wrapping_add(pc, U32(4)),
                                      sign_extend(offset * 2^12, 23)))
        ELSE LET c1 == SetR(c, PC, wrapping_add(R(c, LR), U32(offset * 2)))
             IN  SetR(c1, LR, or32(wrapping_add(pc, U32(2)), U32(1)))

\* `SoftwareInt => unimplemented!()` and `Undefined => return false`
ExSoftwareInt(c) == [c |-> c, ret |-> "panic"]

ExUndefined_Continues(c) == [c |-> c, ret |-> "true"]
ExUndefined_RewindsPc(c) ==
    [c |-> SetR(c, PC, wrapping_sub(R(c, PC), U32(2))), ret |-> "false"]

ExUndefined(c) == [c |-> c, ret |-> "false"]

\* the `match inst_type` of execute_thumb: the context after the arm, and
\* what the arm yields ("true", "false", or "panic" for unimplemented!())
ThumbArm(inst_type, c, inst, pc, cpsr, cf, vf, nv) ==
    CASE inst_type = "Shifted"     -> [c |-> ExShifted(c, inst, cf, vf), ret |-> "true"]
      [] inst_type = "AddSub"      -> [c |-> ExAddSub(c, inst), ret |-> "true"]
      [] inst_type = "ImmOp"       -> [c |-> ExImmOp(c, inst, cf, vf), ret |-> "true"]
      [] inst_type = "AluOp"       -> [c |-> ExAluOp(c, inst, cf, vf), ret |-> "true"]
      [] inst_type = "HiRegBx"     -> [c |-> ExHiRegBx(c, inst, cpsr), ret |-> "true"]
      [] inst_type = "PcLoad"      -> [c |-> ExPcLoad(c, inst), ret |-> "true"]
      [] inst_type = "SingleXferR" -> [c |-> ExSingleXferR(c, inst), ret |-> "true"]
      [] inst_type = "HwSgnXfer"   -> [c |-> ExHwSgnXfer(c, inst), ret |-> "true"]
      [] inst_type = "SingleXferI" -> [c |-> ExSingleXferI(c, inst), ret |-> "true"]
      [] inst_type = "HwXferI"     -> [c |-> ExHwXferI(c, inst), ret |-> "true"]
      [] inst_type = "SpXfer"      -> [c |-> ExSpXfer(c, inst), ret |-> "true"]
      [] inst_type = "LoadAddr"    -> [c |-> ExLoadAddr(c, inst), ret |-> "true"]
      [] inst_type = "SpAdd"       -> [c |-> ExSpAdd(c, inst), ret |-> "true"]
      [] inst_type = "PushPop"     -> [c |-> ExPushPop(c, inst), ret |-> "true"]
      [] inst_type = "BlockXfer"   -> [c |-> ExBlockXfer(c, inst), ret |-> "true"]
      [] inst_type = "CondBranch"  -> [c |-> ExCondBranch(c, inst, pc, cpsr, nv), ret |-> "true"]
      [] inst_type = "SoftwareInt" -> ExSoftwareInt(c)
      [] inst_type = "Branch"      -> [c |-> ExBranch(c, inst, pc), ret |-> "true"]
      [] inst_type = "LongBranch"  -> [c |-> ExLongBranch(c, inst, pc), ret |-> "true"]
      [] inst_type = "Undefined"   -> ExUndefined(c)

\* what one executor call did: the state it left, the Mmu calls it made,
\* what it returned, the word it fetched and the form it decoded
\* the address execute_thumb watches for: with PC there it logs "hit" and
\* raises the process's maximum log level to Debug
HitAddr == <<\H0800, \H029c>>

Outcome(out, exec, inst, form, hit) ==
    [reg |-> out.c.reg, mem |-> out.c.mem, acc |-> out.c.acc, ret |-> out.ret,
     exec |-> exec, inst |-> inst, form |-> form, hit |-> hit]

\* execute_thumb from the decoded form on: the dispatch and what it yields
ThumbDispatch(inst_type, rf, m, pc, inst, cpsr, nv) ==
    Outcome(ThumbArm(inst_type,
                     [reg |-> Put(rf, PC, wrapping_add(pc, U32(2))),
                      mem |-> m,
                      acc |-> << <<"load16", Mask1(pc)>> >>],
                     U32(inst), pc, cpsr, bit(cpsr, 29), bit(cpsr, 28), nv),
            "thumb", inst, inst_type, pc = HitAddr)

\* execute_thumb after the fetch: flags read, the log level raised when
\* pc is HitAddr, PC advanced, decode, dispatch
ThumbBody(rf, m, pc, inst, cpsr, nv) ==
    ThumbDispatch(decode(inst), rf, m, pc, inst, cpsr, nv)

\* Cpu::execute_thumb on register file rf and memory m
execute_thumb(rf, m, nv) ==
    ThumbBody(rf, m, Get(rf, PC), load16(m, Mask1(Get(rf, PC))), Get(rf, CPSR), nv)

----------------------------------------------------------------------------
(* The scheduler surface of Cpu.                                           *)

\* The ARM executor is not part of the sources at hand.  The specification
\* gives its contract: a 32-bit word decoded into a form, every instruction
\* gated by its condition, PC advanced by 4, the effects of the ARMv4T
\* reference, and false returned when the word matches no form.  Four forms
\* are worked out from the reference: BX, B and BL, ADD and MOV with an
\* immediate operand and without S, and the undefined instruction.  Of every
\* other word, "Arm", only the fetch and the PC advance are shown and the
\* flag it returns is left open.

\* the condition field of an ARM word
ArmCond(w) == w[1] \div \H1000

\* the encoding class of an ARM word: bits 27..4 of BX, bits 27..25 of B and
\* BL (101), of the undefined instruction (011 with bit 4 set) and of data
\* processing with an immediate (001), there with opcode ADD or MOV, S clear
\* and a destination other than PC
ArmClass(w) ==
    CASE ArmCond(w) = 15 -> "Arm"
      [] w[1] % \H1000 = \H012f /\ w[2] \div 16 = \H0ff1 -> "ArmBx"
      [] (w[1] \div \H200) % 8 = 5 -> "ArmBranch"
      [] (w[1] \div \H200) % 8 = 3 /\ (w[2] \div 16) % 2 = 1 -> "ArmUndefined"
      [] /\ (w[1] \div \H200) % 8 = 1
         /\ (w[1] \div \H20) % 16 \in {4, 13}
         /\ (w[1] \div \H10) % 2 = 0
         /\ w[2] \div \H1000 # PC -> "ArmDataImm"
      [] OTHER -> "Arm"

\* the form word w is executed as under cpsr: a worked-out form whose
\* condition fails is skipped; what an undefined instruction whose condition
\* fails returns is left open
ArmForm(w, cpsr) ==
    IF ArmClass(w) = "Arm" \/ cond_met(ArmCond(w), cpsr, FALSE) THEN ArmClass(w)
    ELSE IF ArmClass(w) = "ArmUndefined" THEN "Arm"
    ELSE "ArmSkipped"

\* the value an ARM instruction at address pc reads from register r: PC reads
\* two words ahead
ArmRead(rf, r, pc) == IF r = PC THEN wrapping_add(pc, U32(8)) ELSE Get(rf, r)

\* BX Rm: T becomes bit 0 of Rm, PC is Rm aligned to 4 (ARM) or 2 (Thumb)
ArmBx(rf, w, pc) ==
    Put(Put(rf, PC, IF ArmRead(rf, w[2] % 16, pc)[2] % 2 = 0
                    THEN Mask3(ArmRead(rf, w[2] % 16, pc))
                    ELSE Mask1(ArmRead(rf, w[2] % 16, pc))),
        CPSR, set(Get(rf, CPSR), cpsr_T, 1, ArmRead(rf, w[2] % 16, pc)[2] % 2))

\* B and BL: PC is pc + 8 plus four times the signed 24-bit offset; BL
\* leaves the address of the next instruction in LR
ArmBranch(rf, w, pc) ==
    Put(IF (w[1] \div \H100) % 2 = 1 THEN Put(rf, LR, wrapping_add(pc, U32(4))) ELSE rf,
        PC, wrapping_add(wrapping_add(pc, U32(8)),
                         shl32(sign_extend((w[1] % \H100) * \H10000 + w[2], 24), 2)))

\* ADD Rd, Rn, #imm and MOV Rd, #imm: the immediate is 8 bits rotated right
\* by twice the 4-bit rotation
ArmDataImm(rf, w, pc) ==
    Put(Put(rf, PC, wrapping_add(pc, U32(4))), w[2] \div \H1000,
        IF (w[1] \div \H20) % 16 = 4
        THEN wrapping_add(ArmRead(rf, w[1] % 16, pc),
                          ror32(U32(w[2] % 256), 2 * ((w[2] \div \H100) % 16)))
        ELSE ror32(U32(w[2] % 256), 2 * ((w[2] \div \H100) % 16)))

\* execute_arm from the decoded form on
ArmDispatch(form, rf, m, pc, w, arm_ok) ==
    Outcome([c |-> [reg |-> CASE form = "ArmBx" -> ArmBx(rf, w, pc)
                              [] form = "ArmBranch" -> ArmBranch(rf, w, pc)
                              [] form = "ArmDataImm" -> ArmDataImm(rf, w, pc)
                              [] OTHER -> Put(rf, PC, wrapping_add(pc, U32(4))),
                    mem |-> m,
                    acc |-> << <<"load32", Mask3(pc)>> >>],
             ret |-> CASE form = "ArmUndefined" -> "false"
                       [] form = "Arm" -> (IF arm_ok THEN "true" ELSE "false")
                       [] OTHER -> "true"],
            "arm", 0, form, FALSE)

\* Cpu::execute_arm on register file rf and memory m
execute_arm(rf, m, arm_ok) ==
    ArmDispatch(ArmForm(load32(m, Mask3(Get(rf, PC))), Get(rf, CPSR)),
                rf, m, Get(rf, PC), load32(m, Mask3(Get(rf, PC))), arm_ok)

thumb_mode(rf) == bit(Get(rf, CPSR), cpsr_T) # 0

\* the breakpoint test of cycle: whether the notification is logged
Notified(out, dbg) ==
    [reg |-> out.reg, mem |-> out.mem, acc |-> out.acc, ret |-> out.ret,
     exec |-> out.exec, inst |-> out.inst, form |-> out.form, hit |-> out.hit,
     dbg |-> dbg]

cycle_HaltsOnBreak(rf, m, bk, nv, arm_ok) ==
    IF Get(rf, PC) \in bk
    THEN Notified(Outcome([c |-> [reg |-> rf, mem |-> m, acc |-> <<>>], ret |-> "false"],
                          "none", 0, "none", FALSE), TRUE)
    ELSE Notified(IF ~thumb_mode(rf) THEN execute_arm(rf, m, arm_ok)
                  ELSE execute_thumb(rf, m, nv),
                  FALSE)

\* Cpu::cycle
cycle(rf, m, bk, nv, arm_ok) ==
    Notified(IF ~thumb_mode(rf) THEN execute_arm(rf, m, arm_ok)
             ELSE execute_thumb(rf, m, nv),
             Get(rf, PC) \in bk)

\* the `for &(reg, val) in regs` loop of Cpu::init, from pair i on
RECURSIVE ApplySeed(_, _, _)
ApplySeed(rf, regs, i) ==
    IF i > Len(regs) THEN rf
    ELSE ApplySeed(Put(rf, regs[i][1], regs[i][2]), regs, i + 1)

init_CpsrLast(rf, regs) == RegSet(ApplySeed(rf, regs, 1), 0, CPSR, U32(\H1F))

\* Cpu::init
init(rf, regs) == ApplySeed(RegSet(rf, 0, CPSR, U32(\H1F)), regs, 1)

\* Cpu::set_breaks
set_breaks(bk, brks) == bk \cup brks

set_thumb_mode_DropsFlags(rf, thumb) ==
    LET mask == shl32(U32(1), cpsr_T)
        cpsr == Get(rf, CPSR)
    IN  Put(rf, CPSR, or32(and32(cpsr, U32(\H1F)), IF thumb THEN mask ELSE U32(0)))

\* Cpu::set_thumb_mode
set_thumb_mode(rf, thumb) ==
    LET mask == shl32(U32(1), cpsr_T)
        cpsr == Get(rf, CPSR)
    IN  Put(rf, CPSR, or32(and32(cpsr, not32(mask)),
                           IF thumb THEN mask ELSE U32(0)))

----------------------------------------------------------------------------
(* Inputs.                                                                 *)

\* cycle() calls a behaviour may make
MaxCycles == 3

\* Thumb words, several of every form and operation
InstWords ==
    { \H0fb4, \H0008, \H0808, \H1008, \H0048, \H1048, \H07c8,
      \H1c0a, \H1888, \H1a88, \H1e48,
      \H200a, \H2800, \H2805, \H30ff, \H3901, \H2000,
      \H4042, \H4008, \H4048, \H4088, \H40c8, \H4108, \H4148, \H4188, \H41c8,
      \H4208, \H4248, \H4288, \H42c8, \H4308, \H4348, \H4388, \H43c8,
      \H4098, \H40d8, \H4118, \H41d8,
      \H466c, \H4478, \H4687, \H4487, \H4770, \H4700, \H4708, \H4778, \H4588,
      \H4685, \H4540, \H4678, \H46ff, \H4578, \H4730,
      \H4d00, \H4801,
      \H5045, \H5088, \H5488, \H5888, \H5c88,
      \H5fb9, \H5288, \H5688, \H5a88, \H5e88,
      \H7078, \H6010, \H6810, \H7010, \H7810, \H6051,
      \H80b9, \H8010, \H8810, \H8050,
      \H9102, \H9000, \H9800,
      \Ha001, \Ha801,
      \Hb082, \Hb001,
      \Hb407, \Hb500, \Hb503, \Hbc07, \Hbd00, \Hbd01, \Hb400,
      \Hc103, \Hc203, \Hc206, \Hca03, \Hc200, \Hca00, \Hc004, \Hc41c, \Hc430,
      \Hd1fb, \Hd002, \Hd102, \Hd202, \Hd302, \Hd402, \Hd502, \Hd602, \Hd702,
      \Hd802, \Hd902, \Hda02, \Hdb02, \Hdc02, \Hdd02, \Hde02,
      \Hdf00, \Hdf05, \Hdfff,
      \He002, \He7fe,
      \Hf801, \Hf000, \Hf7ff, \Hf802,
      \He800, \Hefff, \Hb100, \Hb600, \Hba00 }

\* programs: one word followed by an Undefined word, and a few longer ones
Programs ==
    { <<w, \He800>> : w \in InstWords }
    \cup { <<\Hf000, \Hf802, \He800, \He800, \Hb500, \Hbd00>>,
           <<\H2007, \Hb401, \Hbc02, \He800>>,
           <<\Hb503, \Hbd03, \He800>> }

\* the bytes of a program loaded at address 0
LoadProg(p) ==
    [a \in {U32(k) : k \in 0 .. 2 * Len(p) - 1} |->
        LET w == p[(a[2] \div 2) + 1]
        IN  IF a[2] % 2 = 0 THEN w % 256 ELSE w \div 256]

\* register seeds for Cpu::new.  SeedEdge: unaligned SP and base pointers,
\* edge values, C and V set, Thumb state
SeedEdge ==
    << <<PC, U32(0)>>, <<SP, U32(\H203)>>, <<0, ONES>>, <<1, <<\H8000, 1>> >>,
       <<2, U32(\H103)>>, <<3, U32(\H22)>>, <<LR, U32(\H41)>>,
       <<CPSR, <<\H3000, \H3F>> >> >>

\* the test harness's seed; a mode switch after and before SP and LR are
\* written; a register named twice
SeedTest   == << <<PC, U32(0)>>, <<SP, U32(\H200)>> >>
SeedSwitch == << <<SP, U32(\H200)>>, <<LR, U32(6)>>, <<CPSR, U32(\H33)>> >>
SeedSvc    == << <<CPSR, U32(\H13)>>, <<SP, U32(\H102)>>, <<2, U32(\H10)>> >>
SeedTwice  == << <<0, U32(1)>>, <<0, U32(2)>>, <<1, U32(\H101)>>,
                 <<CPSR, <<\Hf000, \H3F>> >>, <<PC, U32(2)>> >>

\* Thumb state with PC on the address execute_thumb watches for
SeedHit    == << <<CPSR, U32(\H3F)>>, <<PC, HitAddr>> >>

Seeds == {SeedEdge, SeedTest, SeedSwitch, SeedSvc, SeedTwice, SeedHit}

\* the programs every seed is run with
CommonPrograms ==
    { <<w, \He800>> : w \in {\H200a, \H9000, \Hb503, \Hc103, \Hdf00, \H4770, \He800} }
    \cup (Programs \ { <<w, \He800>> : w \in InstWords })

\* addresses a host may set breakpoints on
BrkAddrs == {U32(0)}

\* Options::default(), as far as Gba reads it
DefaultOptions ==
    [fps_limit |-> TRUE, breaks |-> {}, step_frames |-> FALSE, direct_boot |-> FALSE]

\* a Gba nobody has called run() on: where run() is, the count of
\* emulate_frame, the local `frame` of run(), the passes made by all calls,
\* the calls Gba::cycle has made in the iteration at hand with the PC each
\* left or found, the Options, the maximum log level of the process and the
\* saved machine state
NoFrame ==
    [at |-> "built", iter |-> 0, n |-> 0, passes |-> 0, order |-> <<>>,
     opts |-> DefaultOptions, log |-> "Error", saved |-> <<>>]

NoLast ==
    [op |-> "none", arg |-> "none", ret |-> "none", exec |-> "none",
     acc |-> <<>>, dbg |-> FALSE, inst |-> 0, form |-> "none", hit |-> FALSE]

Did(op, arg) == [NoLast EXCEPT !.op = op, !.arg = arg]

Cycled(op, out) ==
    [op |-> op, arg |-> "none", ret |-> out.ret, exec |-> out.exec,
     acc |-> out.acc, dbg |-> out.dbg, inst |-> out.inst, form |-> out.form,
     hit |-> out.hit]

----------------------------------------------------------------------------
(* The CPU as a state machine driven by its host.                          *)

Init ==
    /\ reg = RegDefault
    /\ brk = {}
    /\ phase = "unbuilt"
    /\ seed \in Seeds
    /\ \E p \in (IF seed = SeedEdge THEN Programs ELSE CommonPrograms) :
          mem = LoadProg(p)
    /\ pcRun = "idle"
    /\ runFlag = FALSE
    /\ ncycles = 0
    /\ last = NoLast
    /\ dword = 0
    /\ dform = "none"
    /\ frame = NoFrame

\* a panic (unimplemented!()) ends the process
Alive == last.ret # "panic"

\* the host is between calls into a constructed Cpu
HostTurn == phase = "ready" /\ pcRun # "loop" /\ Alive

\* Cpu::new(mmu, seed)
New ==
    /\ phase = "unbuilt"
    /\ reg' = init(RegDefault, seed)
    /\ brk' = {}
    /\ phase' = "ready"
    /\ last' = Did("new", "none")
    /\ UNCHANGED <<mem, seed, pcRun, runFlag, ncycles, dword, dform, frame>>

SetBreaks ==
    /\ HostTurn
    /\ \E brks \in SUBSET BrkAddrs :
          /\ brk' = set_breaks(brk, brks)
          /\ last' = Did("set_breaks", brks)
    /\ UNCHANGED <<reg, mem, phase, seed, pcRun, runFlag, ncycles, dword, dform, frame>>

SetThumbMode ==
    /\ HostTurn
    /\ \E thumb \in BOOLEAN :
          /\ reg' = set_thumb_mode(reg, thumb)
          /\ last' = Did("set_thumb_mode", thumb)
    /\ UNCHANGED <<mem, brk, phase, seed, pcRun, runFlag, ncycles, dword, dform, frame>>

\* log::set_max_level(Debug) of execute_thumb, on the record that holds the
\* process's maximum log level
Logged(fr, out) == IF out.hit THEN [fr EXCEPT !.log = "Debug"] ELSE fr

\* the state of the Cpu after a call of cycle() with outcome out
CpuCommit(op, out) ==
    /\ reg' = out.reg
    /\ mem' = out.mem
    /\ last' = Cycled(op, out)
    /\ ncycles' = ncycles + 1
    /\ runFlag' = IF op = "run" THEN out.ret = "true" ELSE runFlag

\* the state after a call of cycle() with outcome out
Commit(op, out) ==
    /\ CpuCommit(op, out)
    /\ frame' = Logged(frame, out)

\* the outcomes left open: what the reserved condition 0xF yields, which only
\* a Thumb word with bits 11..8 all set can ask for, and what the ARM
\* executor returns for a word whose form is not worked out
ThumbNvChoices(rf, m) ==
    IF (load16(m, Mask1(Get(rf, PC))) \div 256) % 16 = 15
    THEN BOOLEAN ELSE {FALSE}

NvChoices(rf, m) == IF thumb_mode(rf) THEN ThumbNvChoices(rf, m) ELSE {FALSE}

ArmChoices(rf, m) ==
    IF ~thumb_mode(rf) /\ ArmForm(load32(m, Mask3(Get(rf, PC))), Get(rf, CPSR)) = "Arm"
    THEN BOOLEAN ELSE {TRUE}

\* one call of Cpu::cycle(), by the host or by run()
DoCycle(op) ==
    \E nv \in NvChoices(reg, mem), arm_ok \in ArmChoices(reg, mem) :
        Commit(op, cycle(reg, mem, brk, nv, arm_ok))

\* the host calls Cpu::cycle()
Cycle ==
    /\ HostTurn
    /\ ncycles < MaxCycles
    /\ DoCycle("cycle")
    /\ UNCHANGED <<brk, phase, seed, pcRun, dword, dform>>

\* the host calls the public Cpu::execute_thumb() itself: the Thumb executor
\* runs whatever CPSR.T says, and no breakpoint is looked up
ExecuteThumb ==
    /\ HostTurn
    /\ ncycles < MaxCycles
    /\ \E nv \in ThumbNvChoices(reg, mem) :
          Commit("execute_thumb", Notified(execute_thumb(reg, mem, nv), FALSE))
    /\ UNCHANGED <<brk, phase, seed, pcRun, dword, dform>>

\* Cpu::run: `let mut run = true`
RunCall ==
    /\ HostTurn
    /\ ncycles < MaxCycles
    /\ pcRun' = "loop"
    /\ runFlag' = TRUE
    /\ last' = Did("run_call", "none")
    /\ UNCHANGED <<reg, mem, brk, phase, seed, ncycles, dword, dform, frame>>

RunLoop_IgnoresFlag ==
    /\ pcRun = "loop" /\ Alive
    /\ ncycles < MaxCycles
    /\ DoCycle("run")
    /\ UNCHANGED <<brk, phase, seed, pcRun, dword, dform>>

\* `while run { run = self.cycle(); }`: one iteration
RunLoop ==
    /\ pcRun = "loop" /\ Alive
    /\ runFlag
    /\ ncycles < MaxCycles
    /\ DoCycle("run")
    /\ UNCHANGED <<brk, phase, seed, pcRun, dword, dform>>

\* the loop condition fails: run() returns
RunExit ==
    /\ pcRun = "loop" /\ Alive
    /\ ~runFlag
    /\ pcRun' = "done"
    /\ last' = [last EXCEPT !.op = "run_return"]
    /\ UNCHANGED <<reg, mem, brk, phase, seed, runFlag, ncycles, dword, dform, frame>>

Next ==
    \/ New \/ SetBreaks \/ SetThumbMode
    \/ Cycle \/ ExecuteThumb
    \/ RunCall \/ RunLoop \/ RunExit

Spec == Init /\ [][Next]_vars

\* run() is straight-line code on one thread: once `run` is false the loop
\* test fails and the function returns
FairSpec == Spec /\ WF_vars(RunExit)

----------------------------------------------------------------------------
(* The decoder alone: Instruction::decode applied to every u16.            *)

Words16 == 0 .. (H - 1)

InitDecode ==
    /\ dword \in Words16
    /\ dform = "none"
    /\ frame = NoFrame
    /\ reg = RegDefault
    /\ mem = <<>>
    /\ brk = {}
    /\ phase = "unbuilt"
    /\ seed = <<>>
    /\ pcRun = "idle"
    /\ runFlag = FALSE
    /\ ncycles = 0
    /\ last = NoLast

Decode ==
    /\ dform = "none"
    /\ dform' = decode(dword)
    /\ UNCHANGED <<dword, reg, mem, brk, phase, seed, pcRun, runFlag, ncycles, last, frame>>

SpecDecode == InitDecode /\ [][Decode]_vars

----------------------------------------------------------------------------
(* The Thumb executor on its own: a Cpu built by new() over a memory that  *)
(* holds a short program and some data, then stepped by cycle().           *)

\* cycle() calls a behaviour of SpecThumb makes
MaxSteps == 2

\* operand values at the edges of the signed and unsigned ranges
EdgeVals == {U32(0), U32(1), <<\H7fff, \Hffff>>, <<\H8000, 0>>, ONES}


\* where the program is loaded: low memory, and just under a 64 KiB border
ThumbBases == {U32(\H10), <<\H0800, \Hfffc>>}

\* a seed for new(): System mode with T set and the flag nibble fl (N Z C V),
\* r0 = a, r1 = b, r2 an unaligned and r4 an aligned pointer into the data
ThumbSeed(pc, sp, lr, a, b, fl) ==
    << <<CPSR, <<fl * \H1000, \H3F>> >>, <<PC, pc>>, <<SP, sp>>, <<LR, lr>>,
       <<0, a>>, <<1, b>>, <<2, U32(\H103)>>, <<3, U32(\H22)>>,
       <<4, U32(\H100)>>, <<5, U32(2)>>, <<6, <<\Hffff, \Hfffe>> >>,
       <<7, U32(\H81)>> >>

\* the bytes of program p loaded at address base
LoadAt(p, base) ==
    [a \in {wrapping_add(base, U32(k)) : k \in 0 .. 2 * Len(p) - 1} |->
        LET k == CHOOSE j \in 0 .. 2 * Len(p) - 1 : wrapping_add(base, U32(j)) = a
            w == p[(k \div 2) + 1]
        IN  IF k % 2 = 0 THEN w % 256 ELSE w \div 256]

\* data words: bytes and halfwords with the sign bit set and clear at 0x100,
\* return addresses with bit 0 set and clear on the stack at 0x200
DataWords ==
    << <<U32(\H100), <<\H80ff, \H8180>> >>, <<U32(\H104), <<\H7f00, \H12f3>> >>,
       <<U32(\H124), <<\H8001, \Hfffe>> >>,
       <<U32(\H200), U32(\H41)>>, <<U32(\H204), <<\H0800, \H0102>> >>,
       <<U32(\H208), <<\H1234, \H5679>> >> >>

RECURSIVE StoreAll(_, _, _)
StoreAll(m, ws, i) ==
    IF i > Len(ws) THEN m ELSE StoreAll(set32(m, ws[i][1], ws[i][2]), ws, i + 1)

\* the memory a scenario starts with
Image(p, base) == StoreAll(LoadAt(p, base), DataWords, 1)

\* an Undefined word before a MOV; a PUSH and the POP of the same list;
\* long-branch halves in order, and a second half with no first half
PairPrograms ==
    { <<\Hefff, \H200a>>, <<\Hb407, \Hbc07>>, <<\Hb4a1, \Hbca1>>, <<\Hf000, \Hf802>>, <<\Hf7ff, \Hffff>>, <<\Hf3ff, \Hf800>>, <<\Hf400, \Hfc01>>,
      <<\Hf802, \Hf000>>, <<\H2007, \Hf801>> }


\* scenarios <<program, seed>>: every word once; the register-to-register
\* forms over the operand edges and three flag settings; the conditional
\* branches over all sixteen flag settings; the transfer and branch forms
\* over stack pointers, bases and link values; the shifts by register over
\* amounts around 32; a few words at HitAddr
Scenarios ==
    { << <<w, \He800>>, ThumbSeed(U32(\H10), U32(\H203), U32(\H41), ONES, U32(1), 3) >> :
        w \in InstWords }
    \cup
    { << <<w, \He800>>, ThumbSeed(U32(\H10), U32(\H200), U32(\H41), a, b, fl) >> :
        w \in {x \in InstWords : x \div \H1000 \in 0 .. 4},
        a \in EdgeVals, b \in EdgeVals, fl \in {0, 3, 12} }
    \cup
    { << <<w, \He800>>, ThumbSeed(U32(\H10), U32(\H200), U32(\H41), U32(5), U32(7), fl) >> :
        w \in {x \in InstWords : x \div \H1000 = \Hd} \cup {\Hd080, \Hdeff, \Hd5fe},
        fl \in 0 .. 15 }
    \cup
    { << p, ThumbSeed(pc, sp, lr, U32(\H104), <<\H8000, 1>>, 2) >> :
        p \in { <<w, \He800>> : w \in {x \in InstWords : x \div \H1000 \in {4, 5, \Hb, \Hc, \Hf}} }
              \cup PairPrograms,
        pc \in ThumbBases,
        sp \in {U32(\H200), U32(\H203), U32(4), <<\Hffff, \Hfff8>>},
        lr \in {U32(\H41), <<\H0800, \H0100>>, <<\Hffff, \Hffff>>} }
    \cup
    { << <<w, \He800>>, ThumbSeed(U32(\H10), U32(\H200), U32(\H41), a, b, fl) >> :
        w \in {\H4088, \H40c8, \H4108, \H41c8},
        a \in { <<\H8000, 1>>, <<\H4000, 2>>, <<\H0001, \H8000>> },
        b \in {U32(8), U32(31), U32(32), U32(33), U32(\H120)}, fl \in {0, 2} }
    \cup
    { << <<w, \He800>>, ThumbSeed(HitAddr, U32(\H200), U32(\H41), U32(5), U32(7), 2) >> :
        w \in {\Hc200, \Hca00, \Hc203, \H2805, \Hdf00, \He7fe, \He800} }

InitThumb ==
    /\ \E sc \in Scenarios :
          /\ seed = sc[2]
          /\ reg = init(RegDefault, sc[2])
          /\ mem = Image(sc[1], Get(init(RegDefault, sc[2]), PC))
    /\ brk = {}
    /\ phase = "ready"
    /\ pcRun = "idle"
    /\ runFlag = FALSE
    /\ ncycles = 0
    /\ last = Did("new", "none")
    /\ dword = 0
    /\ dform = "none"
    /\ frame = NoFrame

\* the host calls cycle()
ThumbStep ==
    /\ Alive
    /\ ncycles < MaxSteps
    /\ DoCycle("cycle")
    /\ UNCHANGED <<brk, phase, seed, pcRun, dword, dform>>

SpecThumb == InitThumb /\ [][ThumbStep]_vars

----------------------------------------------------------------------------
(* The host: Gba::new, Gba::run, Gba::emulate_frame and Gba::cycle.  Each  *)
(* of the four calls of Gba::cycle is a step of its own.  The PPU, SPU and *)
(* IO steps are opaque: each notes the PC it finds when it is called.      *)

CYCLES_PER_FRAME == 280896

\* passes of the loop of Gba::run a behaviour may make
MaxFrames == 1

\* the body of Gba::cycle: the calls it makes, in order
GbaCycleBody_PpuFirst == <<"ppu", "cpu", "spu", "io">>

GbaCycleBody == <<"cpu", "ppu", "spu", "io">>


\* Gba::cycle has returned to emulate_frame: `for _ in 0..CYCLES_PER_FRAME`
\* counts the iteration and goes on or ends
Iterated(fr) ==
    [fr EXCEPT !.iter = fr.iter + 1,
               !.at = IF fr.iter + 1 < CYCLES_PER_FRAME THEN "loop" ELSE "done"]

\* the frame after call `who` of Gba::cycle returned; rf is the register
\* file the call left (the CPU) or found (the PPU, the SPU, the IO block)
Stepped(fr, who, rf) ==
    IF (Len(fr.order) % Len(GbaCycleBody)) + 1 < Len(GbaCycleBody)
    THEN [fr EXCEPT !.order = Append(IF Len(fr.order) = Len(GbaCycleBody) THEN <<>>
                                     ELSE fr.order,
                                     <<who, Get(rf, PC)>>)]
    ELSE Iterated([fr EXCEPT !.order = Append(fr.order, <<who, Get(rf, PC)>>)])

\* Cpu::init_arm, Cpu::init_direct and GbaMmu::new are not part of the
\* sources at hand and the specification does not describe them.  They are
\* taken by their names and by the machine: a boot from the BIOS starts at
\* the reset vector, a direct boot at the start of the cartridge, both in ARM
\* state as Cpu::new leaves it; the BIOS image is mapped from address 0 and
\* the cartridge image from 0x08000000.
ResetVector == U32(0)
CartridgeEntry == <<\H0800, 0>>

init_arm(rf) == Put(rf, PC, ResetVector)

init_direct(rf) == Put(rf, PC, CartridgeEntry)

\* GbaMmu::new(rom, bios, io): the BIOS image from address 0, the cartridge
\* image from its entry point
GbaMmu_new(rom, bios) ==
    [a \in (DOMAIN LoadAt(bios, ResetVector)) \cup (DOMAIN LoadAt(rom, CartridgeEntry)) |->
        IF a \in DOMAIN LoadAt(bios, ResetVector)
        THEN LoadAt(bios, ResetVector)[a] ELSE LoadAt(rom, CartridgeEntry)[a]]

\* IoReg::set_keyreg(keys): the ten key bits, low when down, go to the key
\* register of the IO block the Mmu serves
KEYINPUT == <<\H0400, \H0130>>

set_keyreg(m, keys) == set16(m, KEYINPUT, keys)

\* the scancodes check_save answers to
SaveCodes == {"F1"}

\* Gba::check_save(code, ctrl): with Ctrl down the machine state is saved,
\* without it the saved state, if there is one, is loaded
check_save(st, code, ctrl) ==
    IF code \notin SaveCodes THEN st
    ELSE IF ctrl THEN [st EXCEPT !.saved = << [reg |-> st.reg, mem |-> st.mem] >>]
    ELSE IF Len(st.saved) = 0 THEN st
    ELSE [st EXCEPT !.reg = st.saved[1].reg, !.mem = st.saved[1].mem]

\* log::set_max_level on key B (lines 184-189), and whether info! evaluates
\* its arguments
ToggledLevel(level) == IF level = "Debug" THEN "Error" ELSE "Debug"

InfoEnabled(level) == level \in {"Info", "Debug", "Trace"}

\* the images, as halfwords, a host may hand to Gba::new.  The cartridge:
\* ADD r0, pc, #1; BX r0; then in Thumb state an Undefined word and a branch
\* to HitAddr, where the memory is blank.  The BIOS: B 0x8; MOV r0, #1; an
\* undefined instruction; B to itself
RomImages == { <<\H0001, \He28f, \Hff10, \He12f, \He800, \He147>> }
BiosImages == { <<\H0000, \Hea00, \H0001, \He3a0, \H00f0, \He7f0, \Hfffe, \Heaff>> }

\* hosts: the Options handed to Gba::new and the maximum log level of the
\* process.  The default Options under Info logging; a direct boot with a
\* breakpoint on the entry point, frame stepping and no pacing, under Error
GbaOptions ==
    { [opts |-> DefaultOptions, log |-> "Info"],
      [opts |-> [fps_limit |-> FALSE, breaks |-> {CartridgeEntry},
                 step_frames |-> TRUE, direct_boot |-> TRUE],
       log |-> "Error"] }

\* what the keyboard shows when run() reads it after a frame: the key
\* register, Escape, B
KeyStates ==
    { [keyreg |-> \H03ff, escape |-> FALSE, b |-> FALSE],
      [keyreg |-> \H03fe, escape |-> FALSE, b |-> TRUE],
      [keyreg |-> \H03f7, escape |-> TRUE, b |-> TRUE] }

\* what poll_event() and wait_event() hand out: nothing, a key going down
\* with its scancode, anything else
Events ==
    { [kind |-> "none", code |-> "none"], [kind |-> "other", code |-> "none"],
      [kind |-> "keydown", code |-> "F1"], [kind |-> "keydown", code |-> "F"],
      [kind |-> "keydown", code |-> "none"] }

\* the Cpu of Gba::new(rom, bios, options)
Gba_new_cpu(options) ==
    IF options.direct_boot THEN init_direct(init(RegDefault, <<>>))
    ELSE init_arm(init(RegDefault, <<>>))

\* the state Gba::new(rom, bios, options) returns
InitFrame ==
    /\ seed = <<>>
    /\ \E host \in GbaOptions :
          /\ reg = Gba_new_cpu(host.opts)
          /\ brk = set_breaks({}, host.opts.breaks)
          /\ frame = [NoFrame EXCEPT !.opts = host.opts, !.log = host.log]
    /\ \E rom \in RomImages, bios \in BiosImages : mem = GbaMmu_new(rom, bios)
    /\ phase = "ready"
    /\ pcRun = "idle"
    /\ runFlag = FALSE
    /\ ncycles = 0
    /\ last = Did("new", "none")
    /\ dword = 0
    /\ dform = "none"

\* a step of the main thread that touches nothing but the host
HostStep(fr) ==
    /\ frame' = fr
    /\ UNCHANGED <<reg, mem, brk, phase, seed, pcRun, runFlag, ncycles, last, dword, dform>>

\* the audio thread, started by audio.resume() in Gba::new, runs the callback
\* the SPU handed out; it may do so between any two steps of the main
\* thread.  What it reads and writes is inside the SPU: nothing of the state
\* kept here changes
AudioCallback ==
    /\ frame.at # "panicked"
    /\ UNCHANGED vars

\* Gba::run is called (again): the event pump is taken from the SDL context,
\* which panics when the context refuses (unwrap), and `let mut frame = 0`
GbaRun ==
    /\ frame.at \in {"built", "returned"}
    /\ \E pump \in BOOLEAN :
          HostStep(IF pump THEN [frame EXCEPT !.at = "idle", !.n = 0]
                   ELSE [frame EXCEPT !.at = "panicked"])

\* run() is at the top of its loop and calls emulate_frame:
\* `for _ in 0..CYCLES_PER_FRAME`
EmulateFrame ==
    /\ frame.at = "idle"
    /\ frame.passes < MaxFrames
    /\ HostStep([frame EXCEPT !.at = IF 0 < CYCLES_PER_FRAME THEN "loop" ELSE "done",
                              !.iter = 0, !.order = <<>>,
                              !.passes = frame.passes + 1])

\* Gba::cycle is at call `who` of its body: the call that is due when
\* frame.order lists the calls made
Due(who) ==
    /\ frame.at = "loop"
    /\ GbaCycleBody[(Len(frame.order) % Len(GbaCycleBody)) + 1] = who
    /\ Alive

\* the state after the cpu.cycle() of Gba::cycle left outcome out
FrameCommit(out) ==
    /\ CpuCommit("frame", out)
    /\ frame' = Stepped(Logged(frame, out), "cpu", out.reg)

\* self.cpu.cycle(): the flag it returns is dropped
CpuCycle ==
    /\ Due("cpu")
    /\ \E nv \in NvChoices(reg, mem), arm_ok \in ArmChoices(reg, mem) :
          FrameCommit(cycle(reg, mem, brk, nv, arm_ok))
    /\ UNCHANGED <<brk, phase, seed, pcRun, dword, dform>>

\* self.ppu.cycle()
PpuCycle ==
    /\ Due("ppu")
    /\ HostStep(Stepped(frame, "ppu", reg))

\* self.spu.cycle()
SpuCycle ==
    /\ Due("spu")
    /\ HostStep(Stepped(frame, "spu", reg))

\* self.io.cycle()
IoCycle ==
    /\ Due("io")
    /\ HostStep(Stepped(frame, "io", reg))

\* emulate_frame has returned: the texture is copied, which panics when the
\* renderer refuses (unwrap), and presented
Present ==
    /\ frame.at = "done"
    /\ \E copied \in BOOLEAN :
          HostStep([frame EXCEPT !.at = IF copied THEN "keys" ELSE "panicked"])

\* the events are pumped and the keyboard is read: the keys go to the IO
\* registers, Escape ends run(), B switches the log level
ReadKeys ==
    /\ frame.at = "keys"
    /\ \E keys \in KeyStates :
          /\ mem' = set_keyreg(mem, keys.keyreg)
          /\ frame' = [frame EXCEPT
                 !.at = IF keys.escape THEN "returned" ELSE "events",
                 !.log = IF ~keys.escape /\ keys.b THEN ToggledLevel(frame.log)
                         ELSE frame.log]
    /\ UNCHANGED <<reg, brk, phase, seed, pcRun, runFlag, ncycles, last, dword, dform>>

\* what check_save works on and leaves
SaveView(fr, rf, m) == [reg |-> rf, mem |-> m, saved |-> fr.saved]

Saved(fr, st, at) == [fr EXCEPT !.at = at, !.saved = st.saved]

\* one round of the poll_event loop: a key that went down is offered to
\* check_save, an empty queue ends the loop
PollEvent ==
    /\ frame.at = "events"
    /\ \E event \in Events, ctrl \in BOOLEAN :
          IF event.kind = "keydown" /\ event.code # "none"
          THEN /\ reg' = check_save(SaveView(frame, reg, mem), event.code, ctrl).reg
               /\ mem' = check_save(SaveView(frame, reg, mem), event.code, ctrl).mem
               /\ frame' = Saved(frame, check_save(SaveView(frame, reg, mem), event.code, ctrl),
                                 "events")
          ELSE /\ frame' = [frame EXCEPT
                      !.at = IF event.kind # "none" THEN "events"
                             ELSE IF frame.opts.step_frames THEN "wait" ELSE "pace"]
               /\ UNCHANGED <<reg, mem>>
    /\ UNCHANGED <<brk, phase, seed, pcRun, runFlag, ncycles, last, dword, dform>>

\* opts.step_frames: run() waits for events until key F goes down
WaitEvent ==
    /\ frame.at = "wait"
    /\ \E event \in Events \ {[kind |-> "none", code |-> "none"]} :
          HostStep([frame EXCEPT !.at = IF event.kind = "keydown" /\ event.code = "F"
                                        THEN "pace" ELSE "wait"])

\* opts.fps_limit: a pass that ended early goes to sleep
Pace ==
    /\ frame.at = "pace"
    /\ \E early \in BOOLEAN :
          HostStep([frame EXCEPT !.at = IF frame.opts.fps_limit /\ early
                                        THEN "sleep" ELSE "fps"])

\* thread::sleep returns
Sleep ==
    /\ frame.at = "sleep"
    /\ HostStep([frame EXCEPT !.at = "fps"])

\* the fps line: under Info logging 1_000_000_000 is divided by the
\* nanoseconds of the pass, and the division panics when they are 0;
\* otherwise the frame is counted and the loop starts over
FpsLine ==
    /\ frame.at = "fps"
    /\ \E nanos_zero \in BOOLEAN :
          HostStep(IF InfoEnabled(frame.log) /\ nanos_zero
                   THEN [frame EXCEPT !.at = "panicked"]
                   ELSE [frame EXCEPT !.at = "idle", !.n = frame.n + 1])

SpecFrame ==
    InitFrame /\ [][ \/ AudioCallback \/ GbaRun \/ EmulateFrame
                     \/ CpuCycle \/ PpuCycle \/ SpuCycle \/ IoCycle
                     \/ Present \/ ReadKeys \/ PollEvent \/ WaitEvent
                     \/ Pace \/ Sleep \/ FpsLine ]_vars

----------------------------------------------------------------------------
(* Properties of the decoder, stated over SpecDecode.                      *)

\* the priority order and the (mask, test) classes as the specification
\* lists them
ListedOrder ==
    << "Branch", "AddSub", "AluOp", "Shifted", "ImmOp", "HiRegBx", "PcLoad",
       "SingleXferR", "HwSgnXfer", "SingleXferI", "HwXferI", "SpXfer",
       "LoadAddr", "SpAdd", "PushPop", "BlockXfer", "CondBranch",
       "SoftwareInt", "LongBranch" >>

ListedClass ==
    [ Branch      |-> <<\Hf800, \He000>>, AddSub      |-> <<\Hf800, \H1800>>,
      AluOp       |-> <<\Hfc00, \H4000>>, Shifted     |-> <<\He000, \H0000>>,
      ImmOp       |-> <<\He000, \H2000>>, HiRegBx     |-> <<\Hfc00, \H4400>>,
      PcLoad      |-> <<\Hf800, \H4800>>, SingleXferR |-> <<\Hf200, \H5000>>,
      HwSgnXfer   |-> <<\Hf200, \H5200>>, SingleXferI |-> <<\He000, \H6000>>,
      HwXferI     |-> <<\Hf000, \H8000>>, SpXfer      |-> <<\Hf000, \H9000>>,
      LoadAddr    |-> <<\Hf000, \Ha000>>, SpAdd       |-> <<\Hff00, \Hb000>>,
      PushPop     |-> <<\Hf600, \Hb400>>, BlockXfer   |-> <<\Hf000, \Hc000>>,
      CondBranch  |-> <<\Hf000, \Hd000>>, SoftwareInt |-> <<\Hff00, \Hdf00>>,
      LongBranch  |-> <<\Hf000, \Hf000>> ]

\* w lies in the class of the i-th listed form
InClass(w, i) ==
    and16(w, ListedClass[ListedOrder[i]][1]) = ListedClass[ListedOrder[i]][2]

Hits(w) == {i \in DOMAIN ListedOrder : InClass(w, i)}

Decoded == dform # "none"

\* C3: decode is total on the 65,536 words and returns the first form of the
\* listed order whose (mask, test) class holds the word; it returns Undefined
\* exactly when no class holds it.
C3_DecodeFirstMatch ==
    Decoded =>
        LET hits == Hits(dword)
        IN  /\ dform \in {ListedOrder[i] : i \in DOMAIN ListedOrder} \cup {"Undefined"}
            /\ (hits # {} => dform = ListedOrder[CHOOSE i \in hits : \A j \in hits : i <= j])
            /\ (dform = "Undefined" <=> hits = {})

\* 0x1c0a lies in the classes of AddSub and of Shifted; the earlier one wins
C3_Witness == Decoded /\ dword = \H1c0a /\ Hits(dword) = {2, 4} /\ dform = "AddSub"

Fixtures ==
    << <<\H0fb4, "Shifted">>,     <<\H1c0a, "AddSub">>,    <<\H200a, "ImmOp">>,
       <<\H4042, "AluOp">>,       <<\H466c, "HiRegBx">>,   <<\H4d00, "PcLoad">>,
       <<\H5045, "SingleXferR">>, <<\H5fb9, "HwSgnXfer">>, <<\H7078, "SingleXferI">>,
       <<\H80b9, "HwXferI">>,     <<\H9102, "SpXfer">>,    <<\Ha001, "LoadAddr">>,
       <<\Hb082, "SpAdd">>,       <<\Hb407, "PushPop">>,   <<\Hc103, "BlockXfer">>,
       <<\Hd1fb, "CondBranch">>,  <<\He002, "Branch">>,    <<\Hf801, "LongBranch">> >>

\* C4: a word in the class of F and in no class of higher priority decodes
\* to F; the eighteen fixture words decode to the forms named for them; every
\* word of 0xe800..0xefff decodes to Undefined.
C4_ClassDecodesToForm ==
    Decoded =>
        /\ LET hits == Hits(dword)
           IN  \A i \in hits : (\A j \in 1 .. (i - 1) : j \notin hits) => dform = ListedOrder[i]
        /\ \A k \in DOMAIN Fixtures : dword = Fixtures[k][1] => dform = Fixtures[k][2]
        /\ (dword \in \He800 .. \Hefff => dform = "Undefined")

C4_Witness == Decoded /\ dword = \Hb407 /\ dform = "PushPop"

\* C5: every word w with (w & 0xff00) = 0xdf00 decodes to SoftwareInt and not
\* to CondBranch.
C5_SwiDecodesToSoftwareInt ==
    (Decoded /\ and16(dword, \Hff00) = \Hdf00)
        => (dform = "SoftwareInt" /\ dform # "CondBranch")

----------------------------------------------------------------------------
(* Properties of the CPU, stated over Spec (C6 over FairSpec).             *)

\* the last operation was a call of cycle() that ran the Thumb executor
ThumbCycled == last.op \in {"cycle", "run"} /\ last.exec = "thumb"

\* C1: in Thumb state cycle() returns false if and only if the fetched word
\* decodes to Undefined, and true for every other decoded form.
C1_FalseIffUndefined ==
    ThumbCycled =>
        /\ (last.ret = "false" <=> last.form = "Undefined")
        /\ (last.form # "Undefined" => last.ret = "true")

C1_Witness ==
    /\ ThumbCycled /\ last.inst = \He800 /\ last.form = "Undefined"
    /\ last.ret = "false" /\ ncycles = 2

\* Towards C2 (left open): the only panic of the executor's own code is the
\* SoftwareInt arm, which decode never selects; a word of 0xdf00..0xdfff
\* runs the CondBranch arm, which calls cond_met with condition 0xF.  Under
\* the assumption that cond_met returns there, no Thumb cycle panics; what
\* cond_met does at 0xF is not known, so this settles nothing about C2.
NoPanic_IfCondMetReturns ==
    ThumbCycled =>
        /\ last.ret \in {"true", "false"}
        /\ (last.inst \in \Hdf00 .. \Hdfff => last.form = "CondBranch")

SwiWordRan == ThumbCycled /\ last.inst = \Hdf05 /\ last.ret = "true"

\* C10: every address the Thumb executor hands to load32/set32 is a multiple
\* of 4 and every address it hands to load16/set16 is a multiple of 2.
C10_AccessesAligned ==
    (ThumbCycled \/ (last.op = "execute_thumb" /\ last.exec = "thumb")) =>
        \A i \in DOMAIN last.acc :
            /\ (last.acc[i][1] \in {"load32", "set32"} => last.acc[i][2][2] % 4 = 0)
            /\ (last.acc[i][1] \in {"load16", "set16"} => last.acc[i][2][2] % 2 = 0)

\* the seed pair i is the last one that names its register
IsLastPair(i) == \A j \in DOMAIN seed : j > i => seed[j][1] # seed[i][1]

\* the mode the CPU is in when pair i is applied: that of the last CPSR pair
\* before it, System (0x1F) when there is none
ModeAt(i) ==
    LET prior == {j \in 1 .. (i - 1) : seed[j][1] = CPSR}
    IN  IF prior = {} THEN \H1F
        ELSE seed[CHOOSE j \in prior : \A k \in prior : k <= j][2][2] % 32

SeedNamesCpsr == \E i \in DOMAIN seed : seed[i][1] = CPSR

\* C7 as stated: after new(memory, seed) every register the seed names holds
\* the value of its last pair, CPSR is 0x1F unless the seed names CPSR, and
\* the breakpoint set is empty.
C7_SeedHeld ==
    last.op = "new" =>
        /\ \A i \in DOMAIN seed : IsLastPair(i) => Get(reg, seed[i][1]) = seed[i][2]
        /\ (~SeedNamesCpsr => Get(reg, CPSR) = U32(\H1F))
        /\ brk = {}

\* C7 (amended): after new(memory, seed) every register the seed names holds
\* the value of its last pair in the bank of the mode that was current when
\* that pair was applied, CPSR is 0x1F unless the seed names CPSR, and the
\* breakpoint set is empty.
C7_SeedHeldInBank ==
    last.op = "new" =>
        /\ \A i \in DOMAIN seed :
              IsLastPair(i) => reg[Slot(ModeAt(i), seed[i][1])] = seed[i][2]
        /\ (~SeedNamesCpsr => Get(reg, CPSR) = U32(\H1F))
        /\ brk = {}

\* SP was seeded in System mode, then the seed's CPSR moved to Supervisor
C7_Witness ==
    /\ last.op = "new" /\ seed = SeedSwitch
    /\ reg[SP] = U32(\H200) /\ Get(reg, CPSR) = U32(\H33)

TBit(rf) == (rf[CPSR][2] \div 32) % 2

\* C8: set_thumb_mode(b) makes bit 5 of CPSR equal to b and leaves the other
\* CPSR bits, all other registers and memory as they were; a call of cycle()
\* runs the Thumb executor when T is set and the ARM executor otherwise.
C8_ThumbModeSwitch ==
    [][ /\ last'.op = "set_thumb_mode" =>
              /\ TBit(reg') = (IF last'.arg THEN 1 ELSE 0)
              /\ reg'[CPSR][1] = reg[CPSR][1]
              /\ reg'[CPSR][2] - 32 * TBit(reg') = reg[CPSR][2] - 32 * TBit(reg)
              /\ \A sl \in Slots \ {CPSR} : reg'[sl] = reg[sl]
              /\ mem' = mem
        /\ last'.op \in {"cycle", "run"} =>
              last'.exec = (IF TBit(reg) = 1 THEN "thumb" ELSE "arm") ]_vars

\* T was cleared under the flags C and V, then an ARM cycle ran
C8_Witness ==
    /\ last.op = "cycle" /\ last.exec = "arm"
    /\ reg[CPSR] = U32(\H3000001F) /\ seed = SeedEdge

\* the breakpoint set that differs from bk on the address pc
Toggled(bk, pc) == IF pc \in bk THEN bk \ {pc} ELSE bk \cup {pc}

\* the call with outcome out left the CPU as r, m with result ret
SameEffect(out, r, m, l) ==
    out.reg = r /\ out.mem = m /\ out.ret = l.ret /\ out.acc = l.acc

\* C9: set_breaks only adds addresses, and breakpoints never influence
\* execution: a CPU that differs only in whether PC is a breakpoint gets the
\* same flag, registers, CPSR and memory from cycle().
C9_BreakpointsInert ==
    [][ /\ brk \subseteq brk'
        /\ last'.op = "set_breaks" =>
              (brk' = brk \cup last'.arg /\ reg' = reg /\ mem' = mem)
        /\ last'.op \in {"cycle", "run"} =>
              \E nv \in BOOLEAN, arm_ok \in BOOLEAN :
                  SameEffect(cycle(reg, mem, Toggled(brk, Get(reg, PC)), nv, arm_ok),
                             reg', mem', last') ]_vars

\* a cycle ran an instruction to the end although PC was a breakpoint
C9_Witness ==
    /\ last.op = "cycle" /\ last.dbg /\ last.ret = "true"
    /\ last.form = "ImmOp" /\ brk # {}

\* C6: run() calls cycle() again while the last call returned true, returns
\* right after the first call that returned false without touching the CPU
\* again, returns in no other way, and does return once a cycle has hit an
\* Undefined instruction.
C6_RunUntilFalse ==
    /\ [][ /\ (pcRun = "loop" /\ runFlag) =>
                 /\ last'.op = "run" /\ ncycles' = ncycles + 1
                 /\ pcRun' = "loop" /\ runFlag' = (last'.ret = "true")
           /\ (pcRun = "loop" /\ ~runFlag) =>
                 (pcRun' = "done" /\ reg' = reg /\ mem' = mem /\ ncycles' = ncycles)
           /\ (pcRun' = "done" /\ pcRun # "done") =>
                 (last.op = "run" /\ last.ret = "false") ]_vars
    /\ ((pcRun = "loop" /\ last.op = "run" /\ last.form = "Undefined") ~> (pcRun = "done"))

\* run() executed one instruction, hit Undefined and returned
C6_Witness ==
    /\ pcRun = "done" /\ last.op = "run_return" /\ last.form = "Undefined"
    /\ last.ret = "false" /\ ncycles = 2

----------------------------------------------------------------------------
(* Properties of single Thumb instructions, stated over SpecThumb.  A step *)
(* is read through the word it executed (last'.inst), the register file    *)
(* and memory before it (reg, mem) and after it (reg', mem').              *)

\* bits off .. off+len-1 of the instruction word w
Field(w, off, len) == (w \div 2^off) % 2^len

\* unsigned a < b, and the sign bit, of 32-bit values
LtU(a, b) == a[1] < b[1] \/ (a[1] = b[1] /\ a[2] < b[2])
Neg(x) == x[1] >= \H8000

\* the flags N, Z, C, V of a register file, as 0 or 1
FlagN(rf) == (rf[CPSR][1] \div \H8000) % 2
FlagZ(rf) == (rf[CPSR][1] \div \H4000) % 2
FlagC(rf) == (rf[CPSR][1] \div \H2000) % 2
FlagV(rf) == (rf[CPSR][1] \div \H1000) % 2

B01(p) == IF p THEN 1 ELSE 0

\* the value an instruction at address A = PC reads from register r: PC reads
\* as A + ahead, every other register as it is
Seen(rf, r, ahead) ==
    IF r = PC THEN wrapping_add(Get(rf, PC), U32(ahead)) ELSE Get(rf, r)

\* the step just taken was a Thumb cycle that executed a word of form f
Ran(l, f) == l.op = "cycle" /\ l.exec = "thumb" /\ l.form = f

\* the arithmetic family of a flag-setting word: "add", "sub", "logic" (C and
\* V kept), "shift" (V kept), "mul" (C cleared, V kept), "carry" (ADC, SBC),
\* or "none"
FlagKind(w, f) ==
    CASE f = "Shifted" -> "shift"
      [] f = "AddSub"  -> IF Field(w, 9, 1) = 0 THEN "add" ELSE "sub"
      [] f = "ImmOp"   -> (CASE Field(w, 11, 2) = 0 -> "logic"
                             [] Field(w, 11, 2) = 2 -> "add"
                             [] OTHER -> "sub")
      [] f = "AluOp"   -> (CASE Field(w, 6, 4) \in {0, 1, 8, 12, 14, 15} -> "logic"
                             [] Field(w, 6, 4) \in {2, 3, 4, 7} -> "shift"
                             [] Field(w, 6, 4) \in {5, 6} -> "carry"
                             [] Field(w, 6, 4) \in {9, 10} -> "sub"
                             [] Field(w, 6, 4) = 11 -> "add"
                             [] Field(w, 6, 4) = 13 -> "mul")
      [] f = "HiRegBx" -> IF Field(w, 8, 2) = 1 THEN "sub" ELSE "none"
      [] OTHER -> "none"

\* the two operands of an "add", "sub" or "carry" word
FlagArgs(rf, w, f) ==
    CASE f = "AddSub"  -> << Get(rf, Field(w, 3, 3)),
                             IF Field(w, 10, 1) = 0 THEN Get(rf, Field(w, 6, 3))
                             ELSE U32(Field(w, 6, 3)) >>
      [] f = "ImmOp"   -> << Get(rf, Field(w, 8, 3)), U32(Field(w, 0, 8)) >>
      [] f = "AluOp"   -> << IF Field(w, 6, 4) = 9 THEN U32(0) ELSE Get(rf, Field(w, 0, 3)),
                             Get(rf, Field(w, 3, 3)) >>
      [] f = "HiRegBx" -> << Seen(rf, 8 * Field(w, 7, 1) + Field(w, 0, 3), 2),
                             Seen(rf, 8 * Field(w, 6, 1) + Field(w, 3, 3), 4) >>

\* the result the flags are set from: the difference, sum or conjunction for
\* the comparing words, the destination register after the step otherwise
FlagRes(rf, rf2, w, f) ==
    CASE f = "ImmOp" /\ Field(w, 11, 2) = 1 ->
            wrapping_sub(FlagArgs(rf, w, f)[1], FlagArgs(rf, w, f)[2])
      [] f = "AluOp" /\ Field(w, 6, 4) = 8 ->
            and32(Get(rf, Field(w, 0, 3)), Get(rf, Field(w, 3, 3)))
      [] f = "AluOp" /\ Field(w, 6, 4) = 10 ->
            wrapping_sub(FlagArgs(rf, w, f)[1], FlagArgs(rf, w, f)[2])
      [] f = "AluOp" /\ Field(w, 6, 4) = 11 ->
            wrapping_add(FlagArgs(rf, w, f)[1], FlagArgs(rf, w, f)[2])
      [] f = "HiRegBx" ->
            wrapping_sub(FlagArgs(rf, w, f)[1], FlagArgs(rf, w, f)[2])
      [] f = "ImmOp" -> Get(rf2, Field(w, 8, 3))
      [] OTHER -> Get(rf2, Field(w, 0, 3))

\* bit i of a 32-bit value
BitAt(x, i) == IF i >= 16 THEN (x[1] \div 2^(i - 16)) % 2 ELSE (x[2] \div 2^i) % 2

\* the value a "shift" word shifts, the kind of shift (0 LSL, 1 LSR, 2 ASR,
\* 3 ROR) and the amount: the 5-bit immediate of a Shifted word, where LSR
\* and ASR read 0 as 32, or the low byte of Rs of an AluOp shift
ShiftValue(rf, w, f) ==
    IF f = "Shifted" THEN Get(rf, Field(w, 3, 3)) ELSE Get(rf, Field(w, 0, 3))

ShiftKind(w, f) ==
    IF f = "Shifted" THEN Field(w, 11, 2)
    ELSE CASE Field(w, 6, 4) = 2 -> 0
           [] Field(w, 6, 4) = 3 -> 1
           [] Field(w, 6, 4) = 4 -> 2
           [] Field(w, 6, 4) = 7 -> 3

ShiftAmount(rf, w, f) ==
    IF f = "Shifted"
    THEN (IF Field(w, 6, 5) = 0 /\ Field(w, 11, 2) # 0 THEN 32 ELSE Field(w, 6, 5))
    ELSE Get(rf, Field(w, 3, 3))[2] % 256

\* the carry a shift of val by n supplies: the last bit shifted out, and the
\* carry c as it was when nothing is shifted
ShiftCarry(val, kind, n, c) ==
    IF n = 0 THEN c
    ELSE CASE kind = 0 -> IF n <= 32 THEN BitAt(val, 32 - n) ELSE 0
           [] kind = 1 -> IF n <= 32 THEN BitAt(val, n - 1) ELSE 0
           [] kind = 2 -> BitAt(val, IF n <= 32 THEN n - 1 ELSE 31)
           [] kind = 3 -> BitAt(val, (n - 1) % 32)

\* the carry into the addition an ADC or SBC word makes: C for ADC, 1 - C for
\* SBC, whose arm adds (add_flags(vald, vals, 1 - c))
CarryIn(rf, w) == IF Field(w, 6, 4) = 5 THEN FlagC(rf) ELSE 1 - FlagC(rf)

\* C and V after a word of kind k with operands ab and result res: the
\* unsigned carry and signed overflow of an addition, no borrow and the
\* signed overflow of a subtraction, the last bit shifted out with V kept, C
\* cleared and V kept by MUL, both kept by the logical words
CarryOk(rf, rf2, w, f, k, ab, res) ==
    CASE k = "add" ->
            /\ FlagC(rf2) = B01(LtU(res, ab[1]))
            /\ FlagV(rf2) = B01(Neg(ab[1]) = Neg(ab[2]) /\ Neg(res) # Neg(ab[1]))
      [] k = "sub" ->
            /\ FlagC(rf2) = B01(~LtU(ab[1], ab[2]))
            /\ FlagV(rf2) = B01(Neg(ab[1]) # Neg(ab[2]) /\ Neg(res) # Neg(ab[1]))
      [] k = "logic" -> FlagC(rf2) = FlagC(rf) /\ FlagV(rf2) = FlagV(rf)
      [] k = "shift" ->
            /\ FlagC(rf2) = ShiftCarry(ShiftValue(rf, w, f), ShiftKind(w, f),
                                       ShiftAmount(rf, w, f), FlagC(rf))
            /\ FlagV(rf2) = FlagV(rf)
      [] k = "mul" -> FlagC(rf2) = 0 /\ FlagV(rf2) = FlagV(rf)
      [] k = "carry" ->
            /\ FlagC(rf2) = B01(LtU(res, ab[1])
                                \/ (CarryIn(rf, w) = 1 /\ ab[2] = ONES))
            /\ FlagV(rf2) = B01(Neg(ab[1]) = Neg(ab[2]) /\ Neg(res) # Neg(ab[1]))

FlagsOk(rf, rf2, w, f, res) ==
    /\ FlagN(rf2) = B01(Neg(res))
    /\ FlagZ(rf2) = B01(res = U32(0))
    /\ CarryOk(rf, rf2, w, f, FlagKind(w, f),
               IF FlagKind(w, f) \in {"add", "sub", "carry"} THEN FlagArgs(rf, w, f)
               ELSE <<>>,
               res)
    /\ rf2[CPSR][2] = rf[CPSR][2]
    /\ rf2[CPSR][1] % \H1000 = rf[CPSR][1] % \H1000

\* C11: after a flag-setting Thumb instruction (Shifted, AddSub, ImmOp, AluOp,
\* HiRegBx CMP) with result res, N is bit 31 of res, Z is 1 iff res is 0, C
\* and V are the carry and overflow the form supplies (the carry and signed
\* overflow of its addition or subtraction, the addition SBC makes included;
\* the last bit shifted out, or C as it was for a shift by 0, with V kept; C
\* cleared and V kept for MUL; both kept for the logical words and MOV), and
\* CPSR bits 27..0, T and the mode among them, are as before.
C11_FlagsFromResult ==
    [][ (last'.op = "cycle" /\ last'.exec = "thumb"
            /\ FlagKind(last'.inst, last'.form) # "none")
        => FlagsOk(reg, reg', last'.inst, last'.form,
                   FlagRes(reg, reg', last'.inst, last'.form)) ]_vars

\* ADD r0, r1, r2 with r1 = 0x7fffffff overflowed: N and V set, Z and C
\* clear, T and the mode as they were
C11_Witness ==
    /\ Ran(last, "AddSub") /\ last.inst = \H1888 /\ ncycles = 1
    /\ reg[0] = <<\H8000, \H0102>> /\ reg[CPSR] = <<\H9000, \H3F>>

\* the composed source and destination registers of a HiRegBx word
HiSrc(w) == 8 * Field(w, 6, 1) + Field(w, 3, 3)
HiDst(w) == 8 * Field(w, 7, 1) + Field(w, 0, 3)

\* what a HiRegBx word w did with the source value src
HiRegUses(rf, rf2, w, src) ==
    CASE Field(w, 8, 2) = 0 ->
            HiDst(w) # PC => Get(rf2, HiDst(w)) = wrapping_add(Get(rf, HiDst(w)), src)
      [] Field(w, 8, 2) = 1 ->
            HiDst(w) # PC => FlagZ(rf2) = B01(Get(rf, HiDst(w)) = src)
      [] Field(w, 8, 2) = 2 ->
            HiDst(w) # PC => Get(rf2, HiDst(w)) = src
      [] Field(w, 8, 2) = 3 ->
            /\ (rf2[CPSR][2] \div 32) % 2 = src[2] % 2
            /\ Get(rf2, PC) = IF src[2] % 2 = 1 THEN Mask1(src) ELSE Mask3(src)

\* C12: a HiRegBx instruction at address A whose source register is R15
\* works on A + 4 (the advanced PC plus 2); any other source register is
\* read as it is.
C12_HiRegSourcePc ==
    [][ Ran(last', "HiRegBx")
        => HiRegUses(reg, reg', last'.inst,
                     IF HiSrc(last'.inst) = PC
                     THEN wrapping_add(Get(reg, PC), U32(4))
                     ELSE Get(reg, HiSrc(last'.inst))) ]_vars

\* MOV r0, pc at 0x0800fffc left r0 = 0x08010000
C12_Witness ==
    /\ Ran(last, "HiRegBx") /\ last.inst = \H4678 /\ ncycles = 1
    /\ reg[0] = <<\H0801, 0>> /\ reg[PC] = <<\H0800, \Hfffe>>


----------------------------------------------------------------------------
(* The frame loop, stated over SpecFrame.                                  *)

\* the order the calls of one iteration are to come in
SteppingOrder == <<"cpu", "ppu", "spu", "io">>

\* inside emulate_frame: the calls made in the iteration at hand are the
\* first of cpu, ppu, spu, io, in that order; each subsystem found the PC the
\* CPU cycle of the iteration left, which is the PC the CPU still has; the
\* CPU has made one cycle for every iteration begun; the loop is left when,
\* and only when, the count is CYCLES_PER_FRAME
FrameState(fr, rf, n) ==
    fr.at \in {"loop", "done"} =>
        /\ Len(fr.order) <= Len(SteppingOrder)
        /\ \A i \in 1 .. Len(fr.order) :
              fr.order[i][1] = SteppingOrder[i] /\ fr.order[i][2] = Get(rf, PC)
        /\ Len(fr.order) = 0 => fr.iter = 0
        /\ n = (fr.passes - 1) * CYCLES_PER_FRAME + fr.iter
                + (IF Len(fr.order) \in 1 .. 3 THEN 1 ELSE 0)
        /\ (fr.at = "done") = (fr.iter = CYCLES_PER_FRAME /\ Len(fr.order) = 4)
        /\ fr.iter <= CYCLES_PER_FRAME

\* a step taken when an iteration is to begin: the CPU makes a cycle,
\* whatever flag the cycle before returned, and no subsystem has run yet
FrameCpuStep ==
    (frame.at = "loop" /\ Len(frame.order) \in {0, 4}) =>
        /\ ncycles' = ncycles + 1
        /\ last'.op = "frame" /\ last'.exec \in {"arm", "thumb"}
        /\ last'.ret \in {"true", "false"}
        /\ frame'.order = << <<"cpu", Get(reg', PC)>> >>
        /\ frame'.iter = frame.iter /\ frame'.at = "loop"

\* a step taken after the CPU cycle of an iteration: the subsystem whose
\* turn it is runs, finds registers and memory as the CPU cycle left them
\* and leaves them so; the third of them ends the iteration
FrameSubsystemStep ==
    (frame.at = "loop" /\ Len(frame.order) \in 1 .. 3) =>
        /\ reg' = reg /\ mem' = mem /\ ncycles' = ncycles /\ last' = last
        /\ frame'.order = Append(frame.order,
                                 <<SteppingOrder[Len(frame.order) + 1], Get(reg, PC)>>)
        /\ frame'.iter = frame.iter + (IF Len(frame.order) = 3 THEN 1 ELSE 0)

\* a step taken outside the loop: the CPU makes no cycle; the loop is
\* entered from the top of run() only, with its count at zero, and `done`
\* is reached from the loop only
FrameOutsideStep ==
    /\ frame.at # "loop" =>
            /\ ncycles' = ncycles /\ last' = last
            /\ frame'.at # "done"
            /\ frame'.at = "loop" =>
                    frame.at = "idle" /\ frame'.iter = 0 /\ frame'.order = <<>>

\* C13: emulate_frame makes exactly CYCLES_PER_FRAME = 280,896 iterations and
\* then stops.  Every iteration begins with a CPU cycle, whatever flag the
\* cycle before returned; the PPU, the SPU and the IO block run after it in
\* that order, each after the CPU cycle is over and each finding and leaving
\* the registers and the memory as that cycle left them, so that none of them
\* runs inside a CPU cycle; outside the loop the CPU makes no cycle.
C13_FrameLoop ==
    [][ /\ FrameState(frame', reg', ncycles')
        /\ FrameCpuStep
        /\ FrameSubsystemStep
        /\ FrameOutsideStep ]_vars

\* after a direct boot the cartridge has switched to Thumb state and its
\* third cycle, on an Undefined word, has returned false; the three
\* subsystems have run after it and the fourth CPU cycle is due
C13_Witness ==
    /\ frame.at = "loop" /\ frame.iter = 3 /\ ncycles = 3
    /\ last.op = "frame" /\ last.exec = "thumb" /\ last.form = "Undefined"
    /\ last.ret = "false"
    /\ frame.order = << <<"cpu", <<\H0800, 10>> >>, <<"ppu", <<\H0800, 10>> >>,
                        <<"spu", <<\H0800, 10>> >>, <<"io", <<\H0800, 10>> >> >>
    /\ ENABLED CpuCycle

\* registers a PUSH or POP word transfers: the listed ones and the R bit's
StackCount(w) == count_ones(Field(w, 0, 8)) + Field(w, 8, 1)

StackDelta(rf, rf2, w) ==
    Get(rf2, SP) = IF Field(w, 11, 1) = 0
                   THEN wrapping_sub(Get(rf, SP), U32(4 * StackCount(w)))
                   ELSE wrapping_add(Get(rf, SP), U32(4 * StackCount(w)))

\* C14: a PUSH moves SP down, and a POP moves it up, by four times the number
\* of registers transferred (the listed registers plus the R bit), whatever
\* SP held before.
C14_StackDelta == [][ Ran(last', "PushPop") => StackDelta(reg, reg', last'.inst) ]_vars

\* the registers a block-transfer word lists, and the place of r among them
Listed(w) == {r \in 0 .. 7 : Field(w, r, 1) = 1}
PlaceOf(w, r) == Cardinality({q \in Listed(w) : q < r})

\* what STMIA with base register rb, original base b and final base e did
StoredBlock(rf, rf2, m2, acc, w, rb, b, e) ==
    /\ Get(rf2, rb) = e
    /\ Len(acc) = 1 + Cardinality(Listed(w))
    /\ \A r \in Listed(w) :
          /\ acc[2 + PlaceOf(w, r)] = <<"set32", wrapping_add(b, U32(4 * PlaceOf(w, r)))>>
          /\ load32(m2, wrapping_add(b, U32(4 * PlaceOf(w, r))))
                = IF r = rb THEN (IF PlaceOf(w, r) = 0 THEN b ELSE e)
                  ELSE Get(rf, r)

\* C15: STMIA Rb!, {list} with a non-empty list and original base B leaves
\* Rb = B + 4 * popcount(list) and stores the i-th lowest listed register at
\* B + 4 * i; for Rb itself it stores B when Rb is the lowest listed register
\* and the updated base otherwise.
C15_StoreMultiple ==
    [][ Ran(last', "BlockXfer") /\ Field(last'.inst, 11, 1) = 0
        /\ Listed(last'.inst) # {}
        => StoredBlock(reg, reg', mem', last'.acc, last'.inst,
                       Field(last'.inst, 8, 3),
                       Get(reg, Field(last'.inst, 8, 3)),
                       wrapping_add(Get(reg, Field(last'.inst, 8, 3)),
                                    U32(4 * Cardinality(Listed(last'.inst))))) ]_vars

\* STMIA r4!, {r2, r3, r4} from r4 = 0x100 stored 0x103, 0x22 and the updated
\* base 0x10c
C15_Witness ==
    /\ Ran(last, "BlockXfer") /\ last.inst = \Hc41c /\ ncycles = 1
    /\ Get(reg, 4) = U32(\H10c)
    /\ load32(mem, U32(\H100)) = U32(\H103)
    /\ load32(mem, U32(\H104)) = U32(\H22)
    /\ load32(mem, U32(\H108)) = U32(\H10c)

\* a long-branch half with H = h was the step recorded in l
LongHalf(l, h) == Ran(l, "LongBranch") /\ Field(l.inst, 11, 1) = h

\* hi << 12 as a signed 23-bit quantity, for an 11-bit hi
HighPart(hi) ==
    IF hi >= \H400 THEN wrapping_sub(U32(hi * 4096), U32(8388608)) ELSE U32(hi * 4096)

\* the pair: first half with imm11 = hi at a, second half with imm11 = lo at a + 2
LongPair(rf2, a, hi, lo) ==
    /\ Get(rf2, PC) = wrapping_add(wrapping_add(wrapping_add(a, U32(4)), HighPart(hi)),
                                   U32(lo * 2))
    /\ Get(rf2, LR) = or32(wrapping_add(a, U32(4)), U32(1))

\* a second half with imm11 = lo at x on its own
LongAlone(rf, rf2, x, lo) ==
    /\ Get(rf2, PC) = wrapping_add(Get(rf, LR), U32(lo * 2))
    /\ Get(rf2, LR) = or32(wrapping_add(x, U32(2)), U32(1))

\* C16: the H=0 half at A followed by the H=1 half at A + 2 leaves
\* PC = A + 4 + sext(hi << 12, 23) + (lo << 1) and LR = (A + 4) | 1; an H=1 half
\* at X that no H=0 half preceded leaves PC = LR + (lo << 1) and LR = (X + 2) | 1.
C16_LongBranchPair ==
    [][ LongHalf(last', 1)
        => IF LongHalf(last, 0)
           THEN LongPair(reg', wrapping_sub(Get(reg, PC), U32(2)),
                         Field(last.inst, 0, 11), Field(last'.inst, 0, 11))
           ELSE LongAlone(reg, reg', Get(reg, PC), Field(last'.inst, 0, 11)) ]_vars

\* hi = 0x7ff, lo = 0x7ff at 0x10: the branch lands on 0x12 with LR = 0x15
C16_Witness ==
    /\ LongHalf(last, 1) /\ last.inst = \Hffff /\ ncycles = 2
    /\ Get(reg, PC) = U32(\H12) /\ Get(reg, LR) = U32(\H15)

\* Rd after the word w holds res, and N and Z are those of res
WroteWithNZ(rf2, w, res) ==
    /\ Get(rf2, Field(w, 0, 3)) = res
    /\ FlagN(rf2) = B01(Neg(res))
    /\ FlagZ(rf2) = B01(res = U32(0))

AdcResult(rf, w) ==
    wrapping_add(wrapping_add(Get(rf, Field(w, 0, 3)), Get(rf, Field(w, 3, 3))),
                 U32(FlagC(rf)))

SbcResult(rf, w) ==
    wrapping_sub(wrapping_sub(Get(rf, Field(w, 0, 3)), Get(rf, Field(w, 3, 3))),
                 U32(1 - FlagC(rf)))

\* C17: AluOp with op 6 (SBC) writes Rd - Rs - (1 - C) mod 2^32 to Rd and sets
\* N and Z from it; op 5 (ADC) writes Rd + Rs + C mod 2^32.
C17_AdcSbc ==
    [][ Ran(last', "AluOp")
        => /\ Field(last'.inst, 6, 4) = 6
                => WroteWithNZ(reg', last'.inst, SbcResult(reg, last'.inst))
           /\ Field(last'.inst, 6, 4) = 5
                => Get(reg', Field(last'.inst, 0, 3)) = AdcResult(reg, last'.inst) ]_vars

\* the unsigned n < 2^bits read as a signed quantity of that width
Signed(n, bits) ==
    IF n >= 2^(bits - 1) THEN wrapping_sub(U32(n), U32(2^bits)) ELSE U32(n)

\* what the word w, a register-offset halfword or signed transfer at address
\* a = Rb + Ro, does under the Thumb encoding: H is bit 11, S is bit 10
HalfwordSigned(rf, m, rf2, m2, w, a) ==
    CASE Field(w, 10, 1) = 0 /\ Field(w, 11, 1) = 0 ->
            load16(m2, Mask1(a)) = Get(rf, Field(w, 0, 3))[2]
      [] Field(w, 10, 1) = 0 /\ Field(w, 11, 1) = 1 ->
            Get(rf2, Field(w, 0, 3)) = U32(load16(m, Mask1(a)))
      [] Field(w, 10, 1) = 1 /\ Field(w, 11, 1) = 0 ->
            Get(rf2, Field(w, 0, 3)) = Signed(load8(m, a), 8)
      [] Field(w, 10, 1) = 1 /\ Field(w, 11, 1) = 1 ->
            Get(rf2, Field(w, 0, 3)) = Signed(load16(m, Mask1(a)), 16)

\* C18: the HwSgnXfer form is STRH for S=0,H=0, LDRH for S=0,H=1 (zero
\* extension), LDSB for S=1,H=0 and LDSH for S=1,H=1 (sign extension), with
\* H = bit 11 and S = bit 10, at address Rb + Ro, masked with ~1 for halfwords.
C18_HalfwordSigned ==
    [][ Ran(last', "HwSgnXfer")
        => HalfwordSigned(reg, mem, reg', mem', last'.inst,
                          wrapping_add(Get(reg, Field(last'.inst, 3, 3)),
                                       Get(reg, Field(last'.inst, 6, 3)))) ]_vars

\* C19: from a halfword-aligned PC in Thumb state, Thumb cycles leave PC with
\* bit 0 clear while T is set, and with bits 1..0 clear once a BX has cleared
\* T, whatever value an instruction wrote to PC.
C19_PcAligned ==
    last.op = "cycle" /\ last.exec = "thumb"
    => IF thumb_mode(reg) THEN Get(reg, PC)[2] % 2 = 0 ELSE Get(reg, PC)[2] % 4 = 0

\* the ARM condition table over the flags of rf, for cond in 0 .. 14
Met(cond, rf) ==
    CASE cond = 0  -> FlagZ(rf) = 1
      [] cond = 1  -> FlagZ(rf) = 0
      [] cond = 2  -> FlagC(rf) = 1
      [] cond = 3  -> FlagC(rf) = 0
      [] cond = 4  -> FlagN(rf) = 1
      [] cond = 5  -> FlagN(rf) = 0
      [] cond = 6  -> FlagV(rf) = 1
      [] cond = 7  -> FlagV(rf) = 0
      [] cond = 8  -> FlagC(rf) = 1 /\ FlagZ(rf) = 0
      [] cond = 9  -> FlagC(rf) = 0 \/ FlagZ(rf) = 1
      [] cond = 10 -> FlagN(rf) = FlagV(rf)
      [] cond = 11 -> FlagN(rf) # FlagV(rf)
      [] cond = 12 -> FlagZ(rf) = 0 /\ FlagN(rf) = FlagV(rf)
      [] cond = 13 -> FlagZ(rf) = 1 \/ FlagN(rf) # FlagV(rf)
      [] cond = 14 -> TRUE

\* where a conditional branch at a with offset imm8 goes when taken and when not
Taken(a, imm8) ==
    wrapping_add(wrapping_add(a, U32(4)),
                 wrapping_add(Signed(imm8, 8), Signed(imm8, 8)))
NotTaken(a) == wrapping_add(a, U32(2))

\* the branch decided as the table says; the reserved condition 0xF has no
\* row, so either way is allowed for it
BranchedTo(rf, rf2, w, a) ==
    IF Field(w, 8, 4) = 15
    THEN Get(rf2, PC) \in {Taken(a, Field(w, 0, 8)), NotTaken(a)}
    ELSE Get(rf2, PC) = IF Met(Field(w, 8, 4), rf) THEN Taken(a, Field(w, 0, 8))
                        ELSE NotTaken(a)

\* C20: a conditional branch at A goes to A + 4 + (sext(imm8) << 1) when its
\* condition is met by the flags the cycle started with and to A + 2 when it
\* is not; condition 0xE is always met; nothing but PC changes: no other
\* register, no CPSR bit, no memory.
C20_CondBranch ==
    [][ Ran(last', "CondBranch")
        => /\ BranchedTo(reg, reg', last'.inst, Get(reg, PC))
           /\ \A k \in DOMAIN reg : k # Slot(CurMode(reg), PC) => reg'[k] = reg[k]
           /\ mem' = mem ]_vars

\* BNE -10 at 0x10 with Z clear went to 0x0a
C20_Witness ==
    /\ Ran(last, "CondBranch") /\ last.inst = \Hd1fb /\ ncycles = 1
    /\ FlagZ(reg) = 0 /\ Get(reg, PC) = U32(\H0a)

\* the step recorded in l was a BX
WasBx(l) == Ran(l, "HiRegBx") /\ Field(l.inst, 8, 2) = 3

\* the low half of x with its bits 1..0, or its bit 0, cleared
Clear2(x) == <<x[1], x[2] - (x[2] % 4)>>
Clear1(x) == <<x[1], x[2] - (x[2] % 2)>>

\* what BX with source value s did to register file rf
Exchanged(rf, rf2, s) ==
    /\ TBit(rf2) = s[2] % 2
    /\ Get(rf2, PC) = IF s[2] % 2 = 1 THEN Clear1(s) ELSE Clear2(s)
    /\ rf2[CPSR][1] = rf[CPSR][1]
    /\ rf2[CPSR][2] - 32 * TBit(rf2) = rf[CPSR][2] - 32 * TBit(rf)
    /\ \A k \in DOMAIN rf : k \notin {CPSR, Slot(CurMode(rf), PC)} => rf2[k] = rf[k]

\* C21: BX with source value s sets T to bit 0 of s and PC to s & ~1 (bit 0
\* set) or s & ~3 (bit 0 clear), changing no other CPSR bit and no other
\* register; the cycle right after it runs the ARM executor when T was
\* cleared and the Thumb executor when T was set.
C21_BranchExchange ==
    [][ /\ WasBx(last')
            => Exchanged(reg, reg', Seen(reg, HiSrc(last'.inst), 4))
        /\ WasBx(last) /\ last'.op = "cycle"
            => last'.exec = IF TBit(reg) = 1 THEN "thumb" ELSE "arm" ]_vars

\* BX lr with LR = 0x08000100 cleared T, and the next cycle ran the ARM
\* executor at 0x08000100
C21_Witness ==
    /\ ncycles = 2 /\ last.op = "cycle" /\ last.exec = "arm"
    /\ TBit(reg) = 0 /\ Get(reg, LR) = <<\H0800, \H0100>>
    /\ Get(reg, PC) = <<\H0800, \H0104>>
    /\ last.acc = << <<"load32", <<\H0800, \H0100>> >> >>

\* the registers a PUSH or POP word transfers, lowest first: the listed ones
\* and then the R bit's register extra (LR for PUSH, PC for POP)
StackRegs(w) ==
    Listed(w) \cup (IF Field(w, 8, 1) = 1
                    THEN {IF Field(w, 11, 1) = 0 THEN LR ELSE PC} ELSE {})
StackPlace(w, r) == Cardinality({q \in StackRegs(w) : q < r})

\* PUSH w from stack pointer sp: each register at its place above the new SP
Pushed(rf, rf2, m2, acc, w, sp) ==
    /\ Get(rf2, SP) = wrapping_sub(sp, U32(4 * StackCount(w)))
    /\ Len(acc) = 1 + StackCount(w)
    /\ \A r \in StackRegs(w) :
          /\ acc[2 + StackPlace(w, r)]
                = <<"set32", wrapping_add(Get(rf2, SP), U32(4 * StackPlace(w, r)))>>
          /\ load32(m2, wrapping_add(Get(rf2, SP), U32(4 * StackPlace(w, r)))) = Get(rf, r)
          /\ Get(rf2, r) = Get(rf, r)
    /\ Field(w, 8, 1) = 1 => load32(m2, wrapping_sub(sp, U32(4))) = Get(rf, LR)

\* POP w from stack pointer sp: each register from its place above the old SP
Popped(rf2, m, acc, w, sp) ==
    /\ Get(rf2, SP) = wrapping_add(sp, U32(4 * StackCount(w)))
    /\ Len(acc) = 1 + StackCount(w)
    /\ \A r \in StackRegs(w) :
          /\ acc[2 + StackPlace(w, r)]
                = <<"load32", wrapping_add(sp, U32(4 * StackPlace(w, r)))>>
          /\ Get(rf2, r) = load32(m, wrapping_add(sp, U32(4 * StackPlace(w, r))))
    /\ Field(w, 8, 1) = 1 => acc[Len(acc)] = <<"load32", wrapping_add(sp, U32(4 * Cardinality(Listed(w))))>>

\* the step recorded in l pushed (l = 0) or popped (l = 1) the list of word w
StackOp(l, dir) == Ran(l, "PushPop") /\ Field(l.inst, 11, 1) = dir

\* C22: from a word-aligned SP, PUSH stores the i-th lowest listed register
\* at SP_after + 4*i, LR (R bit) highest at SP_before - 4, and POP loads the
\* i-th lowest listed register from SP_before + 4*i, PC (R bit) last from the
\* highest address; so the POP of the list just pushed finds SP and the
\* listed registers as they were before the PUSH.
C22_StackOrder ==
    [][ Get(reg, SP)[2] % 4 = 0
        => /\ StackOp(last', 0)
                => Pushed(reg, reg', mem', last'.acc, last'.inst, Get(reg, SP))
           /\ StackOp(last', 1)
                => Popped(reg', mem, last'.acc, last'.inst, Get(reg, SP))
           /\ StackOp(last, 0) /\ StackOp(last', 1) /\ Field(last.inst, 8, 1) = 0
              /\ Field(last'.inst, 0, 9) = Field(last.inst, 0, 9)
                => /\ Get(reg', SP)
                        = wrapping_add(last.acc[2][2], U32(4 * StackCount(last.inst)))
                   /\ \A r \in Listed(last.inst) : Get(reg', r) = Get(reg, r) ]_vars

\* PUSH {r0, r5, r7} then POP {r0, r5, r7} from SP = 0x200: the three words
\* went through 0x1f4, 0x1f8 and 0x1fc and SP is 0x200 again
C22_Witness ==
    /\ ncycles = 2 /\ StackOp(last, 1) /\ last.inst = \Hbca1
    /\ Get(reg, SP) = U32(\H200)
    /\ Get(reg, 0) = U32(\H104) /\ Get(reg, 5) = U32(2) /\ Get(reg, 7) = U32(\H81)
    /\ load32(mem, U32(\H1f4)) = U32(\H104)
    /\ load32(mem, U32(\H1f8)) = U32(2)
    /\ load32(mem, U32(\H1fc)) = U32(\H81)

\* the comparing words: ImmOp CMP, AluOp TST / CMP / CMN, HiRegBx CMP
Compares(w, f) ==
    \/ f = "ImmOp" /\ Field(w, 11, 2) = 1
    \/ f = "AluOp" /\ Field(w, 6, 4) \in {8, 10, 11}
    \/ f = "HiRegBx" /\ Field(w, 8, 2) = 1

\* nothing but the flags and the advance of PC
OnlyFlags(rf, rf2, m, m2, acc) ==
    /\ \A k \in DOMAIN rf : k \notin {CPSR, Slot(CurMode(rf), PC)} => rf2[k] = rf[k]
    /\ Get(rf2, PC) = wrapping_add(Get(rf, PC), U32(2))
    /\ m2 = m
    /\ \A i \in DOMAIN acc : acc[i][1] \notin {"set8", "set16", "set32"}

\* the result of an ImmOp or AluOp word that has a closed form here; the
\* register shifts and SBC are left to the flags they set
Computed(rf, w, f) ==
    CASE f = "ImmOp" /\ Field(w, 11, 2) = 0 -> << U32(Field(w, 0, 8)) >>
      [] f = "ImmOp" /\ Field(w, 11, 2) = 2 ->
            << wrapping_add(Get(rf, Field(w, 8, 3)), U32(Field(w, 0, 8))) >>
      [] f = "ImmOp" /\ Field(w, 11, 2) = 3 ->
            << wrapping_sub(Get(rf, Field(w, 8, 3)), U32(Field(w, 0, 8))) >>
      [] f = "AluOp" /\ Field(w, 6, 4) = 0 ->
            << and32(Get(rf, Field(w, 0, 3)), Get(rf, Field(w, 3, 3))) >>
      [] f = "AluOp" /\ Field(w, 6, 4) = 1 ->
            << xor32(Get(rf, Field(w, 0, 3)), Get(rf, Field(w, 3, 3))) >>
      [] f = "AluOp" /\ Field(w, 6, 4) = 5 -> << AdcResult(rf, w) >>
      [] f = "AluOp" /\ Field(w, 6, 4) = 9 ->
            << wrapping_sub(U32(0), Get(rf, Field(w, 3, 3))) >>
      [] f = "AluOp" /\ Field(w, 6, 4) = 12 ->
            << or32(Get(rf, Field(w, 0, 3)), Get(rf, Field(w, 3, 3))) >>
      [] f = "AluOp" /\ Field(w, 6, 4) = 13 ->
            << wrapping_mul(Get(rf, Field(w, 0, 3)), Get(rf, Field(w, 3, 3))) >>
      [] f = "AluOp" /\ Field(w, 6, 4) = 14 ->
            << and32(Get(rf, Field(w, 0, 3)), not32(Get(rf, Field(w, 3, 3)))) >>
      [] f = "AluOp" /\ Field(w, 6, 4) = 15 -> << not32(Get(rf, Field(w, 3, 3))) >>
      [] OTHER -> << >>

\* Rd of an ImmOp or AluOp word
DestOf(w, f) == IF f = "ImmOp" THEN Field(w, 8, 3) ELSE Field(w, 0, 3)

\* Rd holds the result: the value N and Z were set from, and the closed form
\* where there is one
WroteResult(rf, rf2, w, f) ==
    /\ FlagN(rf2) = B01(Neg(Get(rf2, DestOf(w, f))))
    /\ FlagZ(rf2) = B01(Get(rf2, DestOf(w, f)) = U32(0))
    /\ Computed(rf, w, f) # << >> => Get(rf2, DestOf(w, f)) = Computed(rf, w, f)[1]

\* C23: ImmOp CMP, AluOp TST / CMP / CMN and HiRegBx CMP change only flags:
\* Rd and every other general register but PC (advanced by 2) stay and no
\* store is made; every other ImmOp and AluOp word writes its result to Rd;
\* HiRegBx ADD and MOV change no CPSR flag.
C23_ComparesOnlyFlag ==
    [][ last'.op = "cycle" /\ last'.exec = "thumb"
        => /\ Compares(last'.inst, last'.form)
                => OnlyFlags(reg, reg', mem, mem', last'.acc)
           /\ last'.form \in {"ImmOp", "AluOp"} /\ ~Compares(last'.inst, last'.form)
                => WroteResult(reg, reg', last'.inst, last'.form)
           /\ last'.form = "HiRegBx" /\ Field(last'.inst, 8, 2) \in {0, 2}
                => reg'[CPSR] = reg[CPSR] ]_vars

\* CMP r0, #5 with r0 = 1: r0 still 1, N set and C clear from 1 - 5
C23_Witness ==
    /\ Ran(last, "ImmOp") /\ last.inst = \H2805 /\ ncycles = 1
    /\ Get(reg, 0) = U32(1) /\ FlagN(reg) = 1 /\ FlagZ(reg) = 0 /\ FlagC(reg) = 0
    /\ Get(reg, PC) = U32(\H12)

\* what an empty-list block transfer does to the Cpu and to memory: no load
\* and no store, Rb, every other general register and CPSR as they were, PC
\* advanced by 2, cycle() returning true
EmptyTransferCpuEffect ==
    [][ Ran(last', "BlockXfer") /\ Listed(last'.inst) = {}
        => /\ reg' = [reg EXCEPT ![Slot(CurMode(reg), PC)] =
                                        wrapping_add(Get(reg, PC), U32(2))]
           /\ mem' = mem
           /\ last'.acc = << <<"load16", Get(reg, PC)>> >>
           /\ last'.ret = "true" ]_vars

\* C24: LDMIA or STMIA with an empty register list makes no load and no
\* store and leaves Rb, every other general register and CPSR as they were;
\* its only effect is PC advancing by 2 and cycle() returning true: nothing
\* else the program keeps, the maximum log level included, changes.
C24_EmptyBlockTransfer ==
    [][ Ran(last', "BlockXfer") /\ Listed(last'.inst) = {}
        => /\ reg' = [reg EXCEPT ![Slot(CurMode(reg), PC)] =
                                        wrapping_add(Get(reg, PC), U32(2))]
           /\ mem' = mem
           /\ last'.acc = << <<"load16", Get(reg, PC)>> >>
           /\ last'.ret = "true"
           /\ brk' = brk
           /\ frame' = frame ]_vars

\* the step that breaks it: STMIA or LDMIA with an empty list fetched at
\* HitAddr leaves the maximum log level at Debug
C24_LogLevelRaised ==
    /\ Ran(last, "BlockXfer") /\ Listed(last.inst) = {} /\ last.hit
    /\ ncycles = 1 /\ frame.log = "Debug"
    /\ Get(reg, PC) = <<\H0800, \H029e>>

\* LDMIA r2!, {} at 0x10 with r2 = 0x103
C24_Witness ==
    /\ Ran(last, "BlockXfer") /\ last.inst = \Hca00 /\ ncycles = 1
    /\ last.ret = "true" /\ Len(last.acc) = 1
    /\ Get(reg, 2) = U32(\H103) /\ Get(reg, PC) = U32(\H12)

\* the step recorded in l was a Thumb cycle on an Undefined word
HitUndefined(l) == Ran(l, "Undefined")

\* C25: a Thumb cycle on an Undefined word returns false with PC advanced by
\* 2 and every other register, CPSR and memory unchanged; the cycle after it
\* fetches and executes the word at the following address.
C25_FalseCycleAdvances ==
    [][ /\ HitUndefined(last')
            => /\ last'.ret = "false"
               /\ reg' = [reg EXCEPT ![Slot(CurMode(reg), PC)] =
                                            wrapping_add(Get(reg, PC), U32(2))]
               /\ mem' = mem
        /\ HitUndefined(last) /\ last'.op = "cycle"
            => /\ last'.exec = "thumb"
               /\ last'.acc[1] = <<"load16", wrapping_add(last.acc[1][2], U32(2))>>
               /\ last'.inst = load16(mem, wrapping_add(last.acc[1][2], U32(2))) ]_vars

\* the Undefined word 0xefff at 0x10 returned false; the next cycle ran the
\* MOV r0, #10 at 0x12
C25_Witness ==
    /\ ncycles = 2 /\ Ran(last, "ImmOp") /\ last.inst = \H200a
    /\ load16(mem, U32(\H10)) = \Hefff
    /\ last.acc[1] = <<"load16", U32(\H12)>>
    /\ Get(reg, 0) = U32(10) /\ Get(reg, PC) = U32(\H14)

====
